---- MODULE Spec2Model ----
(***************************************************************************)
(* Migration engine of bulk-migration: POST /api/migrations/execute        *)
(* (routes/migrations.js) and executeMigration with its callees            *)
(* (services/migrationService.js, kept in hooks/useApi.ts from line 87).   *)
(*                                                                         *)
(* One job is followed statement by statement.  Every awaited call on the  *)
(* job store (appDb), the source database or the target database either    *)
(* returns or throws; a call that throws has no effect on the database.    *)
(***************************************************************************)
EXTENDS Integers, Sequences, FiniteSets, TLC

\* ------------------------------------------------------------------ bounds
MaxRows == 3       \* most rows of a source table
BatchSize == 2     \* rows per LIMIT/OFFSET fetch (batchSize = 500 in the code, scaled)
MaxFaults == 1     \* most transient throws of database / job-store calls in one behaviour
MaxRuns == 2       \* most runs of the same request, one after the other

\* ------------------------------------------------------------ vocabulary
Tables == {"parent", "child"}
Rules == {"schema", "overwrite", "upsert", "ignore"}
NoRule == "undefined"          \* collection.rule absent
NoErr == "none"
Absent == -1                   \* a field the object does not carry
NotFoundMsg == "Source or target connection not found"

\* columns whose column_default is nextval(...)
SerialColumns == {"id"}

Min(a, b) == IF a < b THEN a ELSE b
Range(s) == {s[i] : i \in 1..Len(s)}

VARIABLES
  pc,              \* position of the request handler / executeMigration
  migrations,      \* the job's row of appDb table migrations
  connections,     \* ids present in appDb table connections
  migration_logs,  \* rows of appDb table migration_logs, in insertion order
  job,             \* arguments of executeMigration: collections, globalRule
  sourceDb,        \* knex handle: "undefined" | "open" | "destroyed"
  targetDb,
  loc,             \* local variables of executeMigration and its callees
  tgt,             \* target database: tables, columns, rows, sequences, session role
  env,             \* environment fixed for one run: standing outage, source tables
                   \* and rows, rows the target rejects
  faults,          \* transient throws so far
  hist             \* history: what was issued / swallowed / thrown

vars == <<pc, migrations, connections, migration_logs, job, sourceDb, targetDb,
          loc, tgt, env, faults, hist>>

\* --------------------------------------------------------- source database
\* The source holds "parent" (id, name, flag) and, unless env says otherwise,
\* "child" (id, parent_id REFERENCES parent).  information_schema.columns
\* gives no column for a table the source does not have.
SourceTables == env.srcTables
TableColumns(t) == IF t = "parent" THEN <<"id", "name", "flag">> ELSE <<"id", "parent_id">>
SourceColumns(t) == IF t \in SourceTables THEN TableColumns(t) ELSE <<>>

\* primary key of source table t (pg_index.indisprimary): child is keyed by
\* id alone or, in a source with composite keys, by (id, parent_id)
PrimaryKeyColumns(t) ==
  IF t = "child" /\ env.pk = "composite" THEN <<"id", "parent_id">> ELSE <<"id">>

\* information_schema.columns row of source column c of table t
null == "null"
ColumnInfo(t, c) ==
  [data_type |-> IF c = "id" THEN (IF t = "child" THEN "bigint" ELSE "integer")
                 ELSE IF c = "parent_id" THEN "integer"
                 ELSE IF c = "name" THEN "character varying" ELSE "boolean",
   is_nullable |-> IF c = "name" THEN "YES" ELSE "NO",
   column_default |-> IF c \in SerialColumns THEN "nextval" ELSE null]
getDefaultValueForType(dataType) ==
  CASE dataType \in {"integer", "bigint", "smallint", "numeric",
                     "double precision", "real"} -> "0"
    [] dataType = "boolean" -> "false"
    [] dataType \in {"character varying", "character", "text"} -> "''"
    [] dataType \in {"json", "jsonb"} -> "'{}'"
    [] dataType \in {"timestamp without time zone",
                     "timestamp with time zone"} -> "NOW()"
    [] dataType = "date" -> "CURRENT_DATE"
    [] dataType = "uuid" -> "gen_random_uuid()"
    [] OTHER -> null
\* the DEFAULT clause of ALTER TABLE ... ADD COLUMN (null: no clause)
AddColumnDefault(col) ==
  IF col.column_default # null THEN col.column_default
  ELSE IF col.is_nullable = "NO" THEN getDefaultValueForType(col.data_type)
  ELSE null
\* whether ALTER TABLE ... ADD COLUMN declares the column NOT NULL
AddColumnNotNull(col) == FALSE
\* the columns CREATE TABLE declares NOT NULL
CreateTableNotNull(t) ==
  {c \in Range(TableColumns(t)) : ColumnInfo(t, c).is_nullable = "NO"}

\* ------------------------------------------------------------ environment
\* rows (by key) of source table t, in physical order
SourceRows(t) == IF t \in SourceTables THEN [i \in 1..env.srcN |-> i] ELSE <<>>

\* One standing failure at most lasts for the whole run; transient throws
\* come on top of it, counted in faults.
Outages == {"none", "sourceDown", "targetDown", "logsDown", "noSourceConn", "noTargetConn"}
Down(db) == (db = "source" /\ env.outage = "sourceDown")
            \/ (db = "target" /\ env.outage = "targetDown")

\* A call on database db ("app", "source", "target"): the set of
\* <<outcome, faults afterwards>>.  A database that is down throws always.
OutcomesF(db, f) ==
  IF Down(db) THEN {<<"throw", f>>}
  ELSE {<<"ok", f>>} \cup (IF f < MaxFaults THEN {<<"throw", f + 1>>} ELSE {})
Outcomes(db) == OutcomesF(db, faults)

EmptyBag == [k \in 1..MaxRows + 1 |-> 0]
BagOf(S) == [k \in 1..MaxRows + 1 |-> IF k \in S THEN 1 ELSE 0]
RECURSIVE BagSum(_, _)
BagSum(b, n) == IF n = 0 THEN 0 ELSE b[n] + BagSum(b, n - 1)
RowCount(t) == BagSum(tgt.rows[t], MaxRows + 1)
OldKey == MaxRows + 1          \* key of a row only the target holds

\* Target presets: the state of the target database before the job.
\*   fresh   no table
\*   seeded  both tables as in the source, with primary keys and the foreign
\*           key, holding a row with key 1 and a row with key OldKey
\*   nokey   as seeded, but no primary key and no foreign key
\*   partial only parent, with the single column id and the row OldKey
\* The rows a preset puts in the target hold other values than the source's
\* rows do (old).
TargetPresets == {"fresh", "seeded", "nokey", "partial"}
Full(p) == p \in {"seeded", "nokey"}
InitTarget(p) ==
  [exists |-> [t \in Tables |-> IF p = "fresh" THEN FALSE
                                ELSE IF Full(p) THEN TRUE
                                ELSE t = "parent"],
   cols   |-> [t \in Tables |-> IF Full(p) THEN Range(TableColumns(t))
                                ELSE IF p = "partial" /\ t = "parent" THEN {"id"}
                                ELSE {}],
   rows   |-> [t \in Tables |-> IF Full(p) THEN BagOf({1, OldKey})
                                ELSE IF p = "partial" /\ t = "parent" THEN BagOf({OldKey})
                                ELSE EmptyBag],
   old    |-> [t \in Tables |-> IF Full(p) THEN {1, OldKey}
                                ELSE IF p = "partial" /\ t = "parent" THEN {OldKey}
                                ELSE {}],
   notnull |-> [t \in Tables |-> IF Full(p) THEN CreateTableNotNull(t)
                                 ELSE IF p = "partial" /\ t = "parent" THEN {"id"}
                                 ELSE {}],
   dflt   |-> [t \in Tables |-> {}],   \* <<column, DEFAULT>> of columns added by ALTER
   fill   |-> [t \in Tables |-> {}],   \* <<column, value>> ALTER gave the rows that existed
   pkey   |-> [t \in Tables |-> p = "seeded"],
   pkcols |-> [t \in Tables |-> IF p = "seeded" THEN Range(PrimaryKeyColumns(t)) ELSE {}],
   fk     |-> (p = "seeded"),          \* child.parent_id REFERENCES parent
   seqs   |-> IF Full(p) THEN Tables ELSE {},
   owned  |-> IF Full(p) THEN Tables ELSE {},   \* tables whose sequence is OWNED BY id
   nextval |-> [t \in Tables |-> 1],            \* next value of the table's sequence
   role   |-> "DEFAULT"]

\* ------------------------------------------------------------------ locals
NoChanges == [tableCreated |-> FALSE, sequencesCreated |-> 0,
              columnsAdded |-> <<>>, errors |-> 0]

InitLoc ==
  [idx |-> 0,                \* position in collections (0: loop not entered)
   results |-> <<>>,
   err |-> NoErr,            \* the exception being handled
   rowsMigrated |-> 0,
   changes |-> NoChanges,    \* migrateSchema
   missing |-> <<>>,         \* migrateSchema: missingColumns still to add
   offset |-> 0,             \* migrateData
   totalMigrated |-> 0,
   data |-> <<>>,            \* migrateData: current batch / upsert, ignore: rows left
   row |-> 0,                \* per-row position
   primaryKey |-> "id"]      \* upsertData: the conflict target

\* what is kept of the previous run of the same request
NoPrev == [results |-> <<>>, rows |-> [t \in Tables |-> EmptyBag],
           old |-> [t \in Tables |-> {}], clean |-> {}]
\* tables, columns and sequences of the target
Shape(db) == [exists |-> db.exists, cols |-> db.cols, seqs |-> db.seqs]

InitHist ==
  [issued |-> <<>>,          \* log events passed to logMigration
   swallowed |-> {},         \* <<task index, function>> whose exception was caught inside
   escaped |-> FALSE,        \* an exception left executeMigration
   destroyThrew |-> {},      \* handles whose destroy() rejected
   dbTouched |-> FALSE,      \* a statement was issued against source or target
   completedWritten |-> FALSE,
   restoreThrew |-> FALSE,   \* a closing SET session_replication_role = DEFAULT threw
   cascaded |-> {},          \* tables emptied by another table's TRUNCATE ... CASCADE
   thrown |-> {},            \* task indexes whose exception reached the collection's catch
   altered |-> {},           \* <<task index, column>> added by ALTER TABLE ADD COLUMN
   notFound |-> FALSE,       \* 'Source or target connection not found' was thrown
   put |-> 0,                \* rows the current task's statements wrote to the target
   fetches |-> 0,            \* migrateData: LIMIT/OFFSET queries that returned
   offsets |-> <<>>,         \* migrateData: their offsets, in order
   fetched |-> <<>>,         \* migrateData: the rows they returned, in order
   bulk |-> 0,               \* migrateData: bulk insert statements issued
   upserted |-> {},          \* keys whose upsert statement of the current task succeeded
   before |-> [exists |-> FALSE, rows |-> EmptyBag, old |-> {}],
                             \* the task's target table when the task started
   entry |-> Shape(tgt),     \* Shape of the target when migrateSchema was last entered
   clean |-> {},             \* schema tasks whose SchemaChanges.errors is empty
   run |-> 1,                \* number of this run of the request
   prev |-> NoPrev]

NoMigration == [status |-> "none", result |-> <<>>, hasResult |-> FALSE,
                error_message |-> NoErr]

Init ==
  /\ pc = "idle"
  /\ migrations = NoMigration
  /\ env \in [outage : Outages, srcN : 0..MaxRows, rejects : {{}, {2}},
              srcTables : {Tables, {"parent"}}, pk : {"single", "composite"}]
  /\ env.pk = "composite"
       => (/\ env.outage = "none" /\ env.srcN = MaxRows
           /\ env.rejects = {} /\ env.srcTables = Tables)
  \* bound: a rejected row is drawn for the largest source only, and a table
  \* missing in the source for the empty and the largest source only
  /\ env.rejects # {} => env.srcN = MaxRows
  /\ env.srcTables # Tables => (env.srcN \in {0, MaxRows} /\ env.rejects = {})
  /\ env.outage # "none"
       => (env.srcN = MaxRows /\ env.rejects = {} /\ env.srcTables = Tables)
  /\ connections = {"src", "tgt"} \ (IF env.outage = "noSourceConn" THEN {"src"}
                                      ELSE IF env.outage = "noTargetConn" THEN {"tgt"}
                                      ELSE {})
  /\ migration_logs = <<>>
  /\ job = [collections |-> <<>>, globalRule |-> NoRule]
  /\ sourceDb = "undefined"
  /\ targetDb = "undefined"
  /\ loc = InitLoc
  /\ \E p \in TargetPresets : tgt = InitTarget(p)
  /\ faults = 0
  /\ hist = InitHist

\* ------------------------------------------------------------ job inputs
\* req.body is not checked against the four rules: a task may carry any string
OtherRule == "replace"
Task == [name : Tables, rule : Rules \cup {NoRule, OtherRule}]
\* the request's collections: any list with at most one task per table, as
\* the selection list of MigrationsView builds it
CollectionInputs ==
  {cs \in UNION {[1..n -> Task] : n \in 0..Cardinality(Tables)} :
     \A i, j \in 1..Len(cs) : i # j => cs[i].name # cs[j].name}
GlobalRules == {"schema"}

\* const rule = collection.rule || globalRule
EffectiveRule_GlobalFirst(c, g) == g
EffectiveRule(c, g) == IF c.rule = NoRule THEN g ELSE c.rule
collection == job.collections[loc.idx]
collectionName == collection.name
rule == EffectiveRule(collection, job.globalRule)

\* ------------------------------------------------------------ logMigration
\* The insert into migration_logs is inside try/catch: a throw is swallowed.
LogEv(level, msg) == [task |-> loc.idx, level |-> level, message |-> msg]
logMigration(lg, evs) == IF env.outage = "logsDown" THEN lg ELSE lg \o evs
\* where control goes after await logMigration(...): the catch inside
\* logMigration only logs, the caller continues
AfterLog_Rethrow(next) == IF env.outage = "logsDown" THEN "catchTable" ELSE next
AfterLog(next) == next
Issue(h, evs) == [h EXCEPT !.issued = @ \o evs]
Touch(h) == [h EXCEPT !.dbTouched = TRUE]
Swallow(h, fn) == [h EXCEPT !.swallowed = @ \cup {<<loc.idx, fn>>}]
Put(h, n) == [h EXCEPT !.put = @ + n]

\* ------------------------------------------- POST /api/migrations/execute
PostExecute ==
  /\ pc = "idle"
  /\ \E cs \in CollectionInputs, g \in GlobalRules, ids \in BOOLEAN :
       IF ~ids \/ Len(cs) = 0
       THEN /\ pc' = "http400"
            /\ UNCHANGED <<migrations, job, faults>>
       ELSE \E o \in Outcomes("app") :
              /\ faults' = o[2]
              /\ IF o[1] = "ok"
                 THEN /\ migrations' = [NoMigration EXCEPT !.status = "running"]
                      /\ job' = [collections |-> cs, globalRule |-> g]
                      /\ pc' = "loadSource"
                 ELSE /\ pc' = "http500"
                      /\ UNCHANGED <<migrations, job>>
  /\ UNCHANGED <<connections, migration_logs, sourceDb, targetDb, loc, tgt, env, hist>>

\* ------------------------------------------------------- executeMigration
\* const sourceConn = await appDb('connections').where('id', sourceConnId).first()
LoadSourceConn ==
  /\ pc = "loadSource"
  /\ \E o \in Outcomes("app") :
       /\ faults' = o[2]
       /\ IF o[1] = "ok"
          THEN pc' = "loadTarget" /\ UNCHANGED loc
          ELSE pc' = "catch" /\ loc' = [loc EXCEPT !.err = "job store error"]
  /\ UNCHANGED <<migrations, connections, migration_logs, job, sourceDb, targetDb,
                 tgt, env, hist>>

\* targetConn lookup, then: if (!sourceConn || !targetConn) throw
LoadTargetConn ==
  /\ pc = "loadTarget"
  /\ \E o \in Outcomes("app") :
       /\ faults' = o[2]
       /\ IF o[1] = "ok"
          THEN IF {"src", "tgt"} \subseteq connections
               THEN pc' = "openSource" /\ UNCHANGED <<loc, hist>>
               ELSE /\ pc' = "catch"
                    /\ loc' = [loc EXCEPT !.err = NotFoundMsg]
                    /\ hist' = [hist EXCEPT !.notFound = TRUE]
          ELSE pc' = "catch" /\ loc' = [loc EXCEPT !.err = "job store error"] /\ UNCHANGED hist
  /\ UNCHANGED <<migrations, connections, migration_logs, job, sourceDb, targetDb,
                 tgt, env>>

\* knex({client: 'pg', ...}) builds the handle and its pool; it does not
\* connect, so an unreachable database is not noticed here.  It throws only
\* when the handle itself cannot be built.
OpenSource ==
  /\ pc = "openSource"
  /\ \/ /\ sourceDb' = "open"
        /\ pc' = "openTarget"
        /\ UNCHANGED <<loc, faults>>
     \/ /\ faults < MaxFaults
        /\ faults' = faults + 1
        /\ pc' = "catch"
        /\ loc' = [loc EXCEPT !.err = "knex error"]
        /\ UNCHANGED sourceDb
  /\ UNCHANGED <<migrations, connections, migration_logs, job, targetDb, tgt, env, hist>>

OpenTarget ==
  /\ pc = "openTarget"
  /\ \/ /\ targetDb' = "open"
        /\ pc' = "loop"
        /\ loc' = [loc EXCEPT !.idx = 1, !.results = <<>>]
        /\ UNCHANGED faults
     \/ /\ faults < MaxFaults
        /\ faults' = faults + 1
        /\ pc' = "catch"
        /\ loc' = [loc EXCEPT !.err = "knex error"]
        /\ UNCHANGED targetDb
  /\ UNCHANGED <<migrations, connections, migration_logs, job, sourceDb, tgt, env, hist>>

\* for (const collection of collections): next collection, "Starting migration" log
StartCollection ==
  /\ pc = "loop"
  /\ loc.idx <= Len(job.collections)
  /\ LET ev == <<LogEv("info", "Starting migration")>>
     IN /\ migration_logs' = logMigration(migration_logs, ev)
        /\ hist' = Issue([hist EXCEPT !.put = 0, !.upserted = {},
                                      !.before = [exists |-> tgt.exists[collectionName],
                                                  rows |-> tgt.rows[collectionName],
                                                  old |-> tgt.old[collectionName]]], ev)
  /\ loc' = [loc EXCEPT !.rowsMigrated = 0, !.err = NoErr, !.changes = NoChanges]
  /\ pc' = AfterLog("getColumns")
  /\ UNCHANGED <<migrations, connections, job, sourceDb, targetDb, tgt, env, faults>>

DispatchPc(r) ==
  IF r = "schema" THEN "ms_sourceCols"
  ELSE IF r = "overwrite" THEN "ow_hasTable"
  ELSE IF r = "upsert" THEN "up_pk"
  ELSE IF r = "ignore" THEN "ig_select"
  ELSE "pushSuccess"

\* const columns = await getTableColumns(sourceDb, collectionName); switch (rule)
GetTableColumns ==
  /\ pc = "getColumns"
  /\ \E o \in Outcomes("source") :
       /\ faults' = o[2]
       /\ IF o[1] = "ok"
          THEN pc' = DispatchPc(rule) /\ UNCHANGED loc /\ hist' = Touch(hist)
          ELSE /\ pc' = "catchTable"
               /\ loc' = [loc EXCEPT !.err = "source query failed"]
               /\ hist' = [Touch(hist) EXCEPT !.thrown = @ \cup {loc.idx}]
  /\ UNCHANGED <<migrations, connections, migration_logs, job, sourceDb, targetDb,
                 tgt, env>>

\* results.push({collection, rule, rowsMigrated, status: "success"})
PushSuccess ==
  /\ pc = "pushSuccess"
  /\ loc' = [loc EXCEPT
       !.results = Append(@, [collection |-> collectionName, rule |-> rule,
                              rowsMigrated |-> loc.rowsMigrated,
                              status |-> "success", error |-> NoErr]),
       !.idx = @ + 1]
  /\ pc' = "loop"
  /\ UNCHANGED <<migrations, connections, migration_logs, job, sourceDb, targetDb,
                 tgt, env, faults, hist>>

\* catch (error) of one collection: error log, results.push({..., status: "failed"}),
\* then the for loop goes on
AfterCatchTable_Rethrow == "catch"
AfterCatchTable == "loop"
CatchTable ==
  /\ pc = "catchTable"
  /\ LET ev == <<LogEv("error", "Migration failed")>>
     IN /\ migration_logs' = logMigration(migration_logs, ev)
        /\ hist' = Issue(hist, ev)
  /\ loc' = [loc EXCEPT
       !.results = Append(@, [collection |-> collectionName, rule |-> rule,
                              rowsMigrated |-> Absent,
                              status |-> "failed", error |-> loc.err]),
       !.idx = @ + 1,
       !.err = NoErr]
  /\ pc' = AfterCatchTable
  /\ UNCHANGED <<migrations, connections, job, sourceDb, targetDb, tgt, env, faults>>

\* after the loop: update({status: "completed", result: JSON.stringify(results), ...});
\* the update is the last call of the try block, control then reaches finally
AfterCompletedWrite_Throws == "catch"
AfterCompletedWrite == "finally"
FinalUpdate ==
  /\ pc = "loop"
  /\ loc.idx > Len(job.collections)
  /\ \E o \in Outcomes("app") :
       /\ faults' = o[2]
       /\ IF o[1] = "ok"
          THEN /\ migrations' = [migrations EXCEPT !.status = "completed",
                                                   !.result = loc.results,
                                                   !.hasResult = TRUE]
               /\ hist' = [hist EXCEPT !.completedWritten = TRUE]
               /\ pc' = AfterCompletedWrite
               /\ UNCHANGED loc
          ELSE /\ loc' = [loc EXCEPT !.err = "status update failed"]
               /\ pc' = "catch"
               /\ UNCHANGED <<migrations, hist>>
  /\ UNCHANGED <<connections, migration_logs, job, sourceDb, targetDb, tgt, env>>

\* catch (error) of executeMigration: update({status: "failed", error_message, ...})
CatchJob ==
  /\ pc = "catch"
  /\ \E o \in Outcomes("app") :
       /\ faults' = o[2]
       /\ IF o[1] = "ok"
          THEN /\ migrations' = [migrations EXCEPT !.status = "failed",
                                                   !.error_message = loc.err]
               /\ UNCHANGED hist
          ELSE /\ hist' = [hist EXCEPT !.escaped = TRUE]
               /\ UNCHANGED migrations
  /\ pc' = "finally"
  /\ UNCHANGED <<connections, migration_logs, job, sourceDb, targetDb, loc, tgt, env>>

\* finally: if (sourceDb) await sourceDb.destroy();
DestroySource ==
  /\ pc = "finally"
  /\ IF sourceDb = "undefined"
     THEN pc' = "finallyTarget" /\ UNCHANGED <<sourceDb, faults, hist>>
     ELSE \/ /\ sourceDb' = "destroyed"
             /\ pc' = "finallyTarget"
             /\ UNCHANGED <<faults, hist>>
          \/ /\ faults < MaxFaults
             /\ faults' = faults + 1
             /\ hist' = [hist EXCEPT !.destroyThrew = @ \cup {"source"}, !.escaped = TRUE]
             /\ pc' = "done"
             /\ UNCHANGED sourceDb
  /\ UNCHANGED <<migrations, connections, migration_logs, job, targetDb, loc, tgt, env>>

\* finally: if (targetDb) await targetDb.destroy();
DestroyTarget ==
  /\ pc = "finallyTarget"
  /\ IF targetDb = "undefined"
     THEN UNCHANGED <<targetDb, faults, hist>>
     ELSE \/ /\ targetDb' = "destroyed"
             /\ UNCHANGED <<faults, hist>>
          \/ /\ faults < MaxFaults
             /\ faults' = faults + 1
             /\ hist' = [hist EXCEPT !.destroyThrew = @ \cup {"target"}, !.escaped = TRUE]
             /\ UNCHANGED targetDb
  /\ pc' = "done"
  /\ UNCHANGED <<migrations, connections, migration_logs, job, sourceDb, loc, tgt, env>>


\* One step of the per-collection body: new position, locals, target, history,
\* and the log events it passes to logMigration.
Go(p, l, t, h, evs) ==
  /\ pc' = p
  /\ loc' = l
  /\ tgt' = t
  /\ migration_logs' = logMigration(migration_logs, evs)
  /\ hist' = Issue(Touch(IF p = "catchTable"
                          THEN [h EXCEPT !.thrown = @ \cup {loc.idx}] ELSE h), evs)
Frame == UNCHANGED <<migrations, connections, job, sourceDb, targetDb, env>>
Info(msg) == <<LogEv("info", msg)>>
Throw(msg) == [loc EXCEPT !.err = msg]

\* ---------------------------------------------------------- migrateSchema
\* Called by rule schema and by rule overwrite (target table missing).  The
\* whole body is inside try/catch: migrateSchema never throws, it returns
\* changes.  The log callback is logMigration at level info.
AfterSchema == IF rule = "schema" THEN "sc_logs" ELSE "ow_hasData"
AddError(l) == [l EXCEPT !.changes.errors = @ + 1]
\* catch (error) around the body: log, changes.errors.push, return changes
MsCatch ==
  Go(AfterSchema, AddError(loc), tgt, Swallow(hist, "migrateSchema"),
     Info("Schema migration failed"))

\* entry of migrateSchema, sourceColumns = await getTableColumnsDetailed(sourceDb, tableName)
Enter(h) == [h EXCEPT !.entry = Shape(tgt)]
MsSourceCols ==
  /\ pc = "ms_sourceCols"
  /\ \E o \in Outcomes("source") :
       /\ faults' = o[2]
       /\ IF o[1] = "throw"
          THEN Go(AfterSchema, AddError(loc), tgt, Swallow(Enter(hist), "migrateSchema"),
                  Info("Schema migration failed"))
          ELSE IF Len(SourceColumns(collectionName)) = 0
          THEN Go(AfterSchema, loc, tgt, Enter(hist),
                  Info("Table not found in source database"))
          ELSE Go("ms_exists", loc, tgt, Enter(hist), <<>>)
  /\ Frame

\* SELECT EXISTS (... information_schema.tables ...) on the target
MsTableExists ==
  /\ pc = "ms_exists"
  /\ \E o \in Outcomes("target") :
       /\ faults' = o[2]
       /\ IF o[1] = "throw" THEN MsCatch
          ELSE IF tgt.exists[collectionName]
          THEN Go("ms_targetCols", loc, tgt, hist, Info("Table exists, checking for new columns"))
          ELSE Go("ms_createSeqs", loc, tgt, hist, Info("Creating sequences"))
  /\ Frame

\* createSequences: the source's sequences of the table (one per serial
\* column), each probed on the target and created when absent; every
\* exception is caught inside createSequences / getTableSequences.
MsCreateSequences ==
  /\ pc = "ms_createSeqs"
  /\ \E os \in Outcomes("source") :
       IF os[1] = "throw"
       THEN /\ faults' = os[2]
            /\ Go("ms_createTable", loc, tgt, Swallow(hist, "getTableSequences"), <<>>)
       ELSE \E ot \in OutcomesF("target", os[2]) :
              /\ faults' = ot[2]
              /\ IF ot[1] = "throw"
                 THEN Go("ms_createTable", loc, tgt, Swallow(hist, "createSequences"),
                         Info("Could not create sequence"))
                 ELSE IF collectionName \in tgt.seqs
                 THEN Go("ms_createTable", loc, tgt, hist, Info("Sequence already exists"))
                 ELSE Go("ms_createTable", loc,
                         [tgt EXCEPT !.seqs = @ \cup {collectionName}], hist,
                         Info("Sequence created"))
  /\ Frame

\* CREATE TABLE with the source's columns; on failure: errors.push, return changes
MsCreateTable ==
  /\ pc = "ms_createTable"
  /\ \E o \in Outcomes("target") :
       /\ faults' = o[2]
       /\ IF o[1] = "throw"
          THEN Go(AfterSchema, AddError(loc), tgt, Swallow(hist, "migrateSchema"),
                  Info("Creating table") \o Info("Failed to create table"))
          ELSE Go("ms_configSeqs",
                  [loc EXCEPT !.changes.tableCreated = TRUE],
                  [tgt EXCEPT !.exists[collectionName] = TRUE,
                              !.cols[collectionName] = Range(SourceColumns(collectionName)),
                              !.rows[collectionName] = EmptyBag,
                              !.old[collectionName] = {},
                              !.notnull[collectionName] = CreateTableNotNull(collectionName),
                              !.dflt[collectionName] = {},
                              !.fill[collectionName] = {},
                              !.pkey[collectionName] = FALSE,
                              !.pkcols[collectionName] = {}],
                  hist, Info("Creating table") \o Info("Table created"))
  /\ Frame

\* for each nextval column: ALTER COLUMN SET DEFAULT nextval, ALTER SEQUENCE
\* OWNED BY; both fail when the sequence is not there; failures are caught.
MsConfigSequences ==
  /\ pc = "ms_configSeqs"
  /\ \E o \in Outcomes("target") :
       /\ faults' = o[2]
       /\ IF o[1] = "ok" /\ collectionName \in tgt.seqs
          THEN Go("ms_pk", [loc EXCEPT !.changes.sequencesCreated = @ + 1],
                  [tgt EXCEPT !.owned = @ \cup {collectionName}], hist,
                  Info("Sequence configured"))
          ELSE Go("ms_pk", loc, tgt, Swallow(hist, "configureSequence"),
                  Info("Could not configure sequence"))
  /\ Frame

\* ADD CONSTRAINT <table>_pkey PRIMARY KEY (nextval columns); failure is caught
MsPrimaryKey ==
  /\ pc = "ms_pk"
  /\ \E o \in Outcomes("target") :
       /\ faults' = o[2]
       /\ IF o[1] = "ok"
          THEN Go("ms_syncIndexes", loc, [tgt EXCEPT !.pkey[collectionName] = TRUE,
                                                    !.pkcols[collectionName] = SerialColumns], hist,
                  Info("Primary key created"))
          ELSE Go("ms_syncIndexes", loc, tgt, Swallow(hist, "createPrimaryKey"),
                  Info("Could not create primary key"))
  /\ Frame

\* existing table: targetColumns, missingColumns in source order
MissingColumns_All(t) == SourceColumns(t)
MissingColumns(t) == SelectSeq(SourceColumns(t), LAMBDA c : c \notin tgt.cols[t])
MsTargetCols ==
  /\ pc = "ms_targetCols"
  /\ \E o \in Outcomes("target") :
       /\ faults' = o[2]
       /\ IF o[1] = "throw" THEN MsCatch
          ELSE IF Len(MissingColumns(collectionName)) = 0
          THEN Go("ms_syncIndexes", loc, tgt, hist, Info("Table is up to date"))
          ELSE Go("ms_addColumn", [loc EXCEPT !.missing = MissingColumns(collectionName)],
                  tgt, hist, Info("Found new columns to add"))
  /\ Frame

\* for (const col of missingColumns): sequence for a nextval column, then
\* ALTER TABLE ADD COLUMN; changes.columnsAdded.push only after the ALTER
\* returned; an exception is caught per column (changes.errors.push).
AfterColumn(l) == IF Len(l.missing) = 0 THEN "ms_syncIndexes" ELSE "ms_addColumn"
ColumnAdded(l, col) ==
  [l EXCEPT !.changes.columnsAdded = Append(@, col), !.missing = Tail(@)]
ColumnFailed(l) == [AddError(l) EXCEPT !.missing = Tail(@)]
\* ALTER TABLE t ADD COLUMN c <type> [DEFAULT d]: the rows that exist take d
AddedColumn(db, t, c) ==
  LET col == ColumnInfo(t, c)
      d == AddColumnDefault(col)
  IN [db EXCEPT !.cols[t] = @ \cup {c},
                !.notnull[t] = IF AddColumnNotNull(col) THEN @ \cup {c} ELSE @,
                !.dflt[t] = IF d # null THEN @ \cup {<<c, d>>} ELSE @,
                !.fill[t] = IF \E k \in DOMAIN db.rows[t] : db.rows[t][k] > 0
                            THEN @ \cup {<<c, d>>} ELSE @]
MsAddColumn ==
  /\ pc = "ms_addColumn"
  /\ LET col == Head(loc.missing)
         t == collectionName
     IN \E o1 \in (IF col \in SerialColumns THEN Outcomes("target") ELSE {<<"ok", faults>>}) :
          IF o1[1] = "throw"
          THEN /\ faults' = o1[2]
               /\ Go(AfterColumn(ColumnFailed(loc)), ColumnFailed(loc), tgt,
                     Swallow(hist, "addColumn"), Info("Failed to add column"))
          ELSE LET tgt1 == IF col \in SerialColumns
                           THEN [tgt EXCEPT !.seqs = @ \cup {t}] ELSE tgt
               IN \E o2 \in OutcomesF("target", o1[2]) :
                    /\ faults' = o2[2]
                    /\ IF o2[1] = "throw"
                       THEN Go(AfterColumn(ColumnFailed(loc)), ColumnFailed(loc), tgt1,
                               Swallow(hist, "addColumn"),
                               Info("Adding column") \o Info("Failed to add column"))
                       ELSE Go(AfterColumn(ColumnAdded(loc, col)), ColumnAdded(loc, col),
                               AddedColumn(tgt1, t, col),
                               [hist EXCEPT !.altered = @ \cup {<<loc.idx, col>>}],
                               Info("Adding column") \o Info("Column added"))
  /\ Frame

\* syncIndexes: reads pg_indexes on both sides, replays missing index
\* definitions; every exception is caught inside.  Indexes are not part of
\* the modelled target state.
MsSyncIndexes ==
  /\ pc = "ms_syncIndexes"
  /\ \E os \in Outcomes("source") :
       IF os[1] = "throw"
       THEN /\ faults' = os[2]
            /\ Go(AfterSchema, loc, tgt, Swallow(hist, "syncIndexes"),
                  Info("Index sync skipped"))
       ELSE \E ot \in OutcomesF("target", os[2]) :
              /\ faults' = ot[2]
              /\ IF ot[1] = "throw"
                 THEN Go(AfterSchema, loc, tgt, Swallow(hist, "syncIndexes"),
                         Info("Index sync skipped"))
                 ELSE Go(AfterSchema, loc, tgt, hist, <<>>)
  /\ Frame

\* ------------------------------------------------------------ rule schema
\* logs of case "schema", then rowsMigrated = schemaChanges.columnsAdded.length
SchemaRowsMigrated_CountsTable(changes) ==
  Len(changes.columnsAdded) + (IF changes.tableCreated THEN 1 ELSE 0)
SchemaRowsMigrated(changes) == Len(changes.columnsAdded)
SchemaLogs ==
  /\ pc = "sc_logs"
  /\ Go("pushSuccess",
        [loc EXCEPT !.rowsMigrated = SchemaRowsMigrated(loc.changes)],
        tgt,
        IF loc.changes.errors = 0 THEN [hist EXCEPT !.clean = @ \cup {loc.idx}] ELSE hist,
        (IF loc.changes.tableCreated THEN Info("Table created successfully") ELSE <<>>)
        \o (IF Len(loc.changes.columnsAdded) > 0 THEN Info("Added columns") ELSE <<>>)
        \o (IF loc.changes.errors > 0 THEN <<LogEv("warning", "Errors")>> ELSE <<>>))
  /\ UNCHANGED faults
  /\ Frame


\* ----------------------------------------------------- inserts on the target
\* FOREIGN KEY child.parent_id -> parent.id: child row k refers to parent row
\* k.  The check is skipped under session_replication_role = replica.
FkOk(t, k) ==
  (t = "child" /\ tgt.fk /\ tgt.role = "DEFAULT") => tgt.rows["parent"][k] > 0
\* INSERT of source row k into target table t is accepted
CanInsert(t, k) ==
  /\ ~Down("target")
  /\ tgt.exists[t]
  /\ Range(SourceColumns(t)) \subseteq tgt.cols[t]
  /\ k \notin env.rejects
  /\ tgt.pkey[t] => tgt.rows[t][k] = 0
  /\ FkOk(t, k)
\* INSERT ... ON CONFLICT (primaryKey) DO UPDATE needs a unique index on
\* exactly that column
CanUpsert(t, k) ==
  /\ ~Down("target")
  /\ tgt.exists[t]
  /\ Range(SourceColumns(t)) \subseteq tgt.cols[t]
  /\ k \notin env.rejects
  /\ tgt.pkcols[t] = {loc.primaryKey}
  /\ FkOk(t, k)
\* .onConflict(pk).merge(): a new key is inserted, an existing row takes the
\* source row's values in every column of the insert
Upserted_KeepsRow(t, k) ==
  IF tgt.rows[t][k] = 0 THEN [tgt EXCEPT !.rows[t][k] = 1] ELSE tgt
Upserted(t, k) ==
  IF tgt.rows[t][k] = 0 THEN [tgt EXCEPT !.rows[t][k] = 1]
  ELSE [tgt EXCEPT !.old[t] = @ \ {k}]
AddRows(bag, keys) == [k \in DOMAIN bag |-> IF k \in keys THEN bag[k] + 1 ELSE bag[k]]
Inserted(t, keys) == [tgt EXCEPT !.rows[t] = AddRows(@, keys)]

\* --------------------------------------------------------- rule overwrite
\* const targetTableExists = await targetDb.schema.hasTable(collectionName)
OwHasTable ==
  /\ pc = "ow_hasTable"
  /\ \E o \in Outcomes("target") :
       /\ faults' = o[2]
       /\ IF o[1] = "throw"
          THEN Go("catchTable", Throw("target query failed"), tgt, hist, <<>>)
          ELSE IF tgt.exists[collectionName]
          THEN Go("ow_hasData", loc, tgt, hist, <<>>)
          ELSE Go("ms_sourceCols", loc, tgt, hist,
                  Info("Target table does not exist, creating..."))
  /\ Frame

\* tableHasData: count(*) > 0, false when the count throws
tableHasData(t, outcome) == outcome = "ok" /\ tgt.exists[t] /\ RowCount(t) > 0
OwTableHasData ==
  /\ pc = "ow_hasData"
  /\ \E o \in Outcomes("target") :
       /\ faults' = o[2]
       /\ LET h == IF o[1] = "ok" /\ tgt.exists[collectionName] THEN hist
                   ELSE Swallow(hist, "tableHasData")
          IN IF tableHasData(collectionName, o[1])
             THEN Go("ow_setReplica", loc, tgt, h, <<>>)
             ELSE Go("md_count", loc, tgt, h, Info("Table is empty, skipping truncate"))
  /\ Frame

\* await targetDb.raw('SET session_replication_role = replica')  (before the try)
OwSetReplica ==
  /\ pc = "ow_setReplica"
  /\ \E o \in Outcomes("target") :
       /\ faults' = o[2]
       /\ IF o[1] = "throw"
          THEN Go("catchTable", Throw("SET failed"), tgt, hist, <<>>)
          ELSE Go("ow_truncate", loc, [tgt EXCEPT !.role = "replica"], hist, <<>>)
  /\ Frame

\* TRUNCATE TABLE "t" CASCADE also empties every table that references t
Referencing(t) == IF t = "parent" /\ tgt.fk /\ tgt.exists["child"] THEN {"child"} ELSE {}
Truncated_Nothing(t) == tgt
Truncated(t) ==
  [tgt EXCEPT !.rows = [u \in Tables |->
                          IF u = t \/ u \in Referencing(t) THEN EmptyBag ELSE @[u]],
              !.old = [u \in Tables |->
                         IF u = t \/ u \in Referencing(t) THEN {} ELSE @[u]]]
OwTruncate ==
  /\ pc = "ow_truncate"
  /\ \E o \in Outcomes("target") :
       /\ faults' = o[2]
       /\ IF o[1] = "throw"
          THEN Go("ow_finally", Throw("TRUNCATE failed"), tgt, hist, <<>>)
          ELSE Go("ow_resetSeq", loc, Truncated(collectionName),
                  [hist EXCEPT !.cascaded = @ \cup
                     {u \in Referencing(collectionName) : RowCount(u) > 0}],
                  Info("Table truncated"))
  /\ Frame

\* JavaScript values: numbers, and strings written as decimal numbers
JsNull == [type |-> "null", v |-> 0]
JsNumber(n) == [type |-> "number", v |-> n]
JsString(n) == [type |-> "string", v |-> n]
\* x || 0
OrZero(x) == IF x.type = "null" THEN JsNumber(0) ELSE x
\* x + 1: addition on a number; on a string, concatenation of "1"
PlusOne(x) == IF x.type = "number" THEN JsNumber(x.v + 1) ELSE JsString(10 * x.v + 1)
\* largest id of target table t (0: no row)
MaxKey(t) ==
  LET S == {k \in DOMAIN tgt.rows[t] : tgt.rows[t][k] > 0}
  IN IF S = {} THEN 0 ELSE CHOOSE k \in S : \A j \in S : j <= k
\* maxResult.max of db(tableName).max(column).first(): null for no row; the
\* driver returns an integer as a number and a bigint (int8) as a string
MaxResult(t, c) ==
  IF RowCount(t) = 0 THEN JsNull
  ELSE IF ColumnInfo(t, c).data_type = "bigint" THEN JsString(MaxKey(t))
  ELSE JsNumber(MaxKey(t))
\* SELECT setval(seq, maxValue + 1, false): the sequence's next value
SetvalTo(t) == PlusOne(OrZero(MaxResult(t, "id"))).v
\* resetSequences: every statement is inside try/catch, nothing is thrown.
\* Only sequences that pg_get_serial_sequence finds (owned by the column) are
\* reset.
SequencesReset(db, t) ==
  IF db.exists[t] /\ t \in db.owned THEN [db EXCEPT !.nextval[t] = SetvalTo(t)] ELSE db
ResetSequences(next, evs) ==
  \E o \in Outcomes("target") :
    /\ faults' = o[2]
    /\ IF o[1] = "throw"
       THEN Go(next, loc, tgt, Swallow(hist, "resetSequences"), evs)
       ELSE Go(next, loc, SequencesReset(tgt, collectionName), hist, evs)
OwResetSeqTruncate ==
  /\ pc = "ow_resetSeq"
  /\ ResetSequences("ow_finally", Info("Sequences reset"))
  /\ Frame

\* finally { SET session_replication_role = DEFAULT }, then the pending
\* exception of the try block, if any, goes on to the collection's catch
OwFinally ==
  /\ pc = "ow_finally"
  /\ \E o \in Outcomes("target") :
       /\ faults' = o[2]
       /\ IF o[1] = "throw"
          THEN Go("catchTable", Throw("SET failed"), tgt,
                  [hist EXCEPT !.restoreThrew = TRUE], <<>>)
          ELSE Go(IF loc.err = NoErr THEN "md_count" ELSE "catchTable", loc,
                  [tgt EXCEPT !.role = "DEFAULT"], hist, <<>>)
  /\ Frame

\* ------------------------------------------------------------ migrateData
\* countResult = await sourceDb(tableName).count(...)
MdCount ==
  /\ pc = "md_count"
  /\ \E o \in Outcomes("source") :
       /\ faults' = o[2]
       /\ IF o[1] = "throw" \/ collectionName \notin SourceTables
          THEN Go("catchTable", Throw("source query failed"), tgt, hist, <<>>)
          ELSE Go("md_fetch", [loc EXCEPT !.offset = 0, !.totalMigrated = 0], tgt,
                  [hist EXCEPT !.fetches = 0, !.offsets = <<>>, !.fetched = <<>>, !.bulk = 0],
                  <<>>)
  /\ Frame

Batch(t, offset) ==
  SubSeq(SourceRows(t), offset + 1, Min(offset + BatchSize, Len(SourceRows(t))))
\* return of migrateData: rowsMigrated = totalMigrated, on to line 513
MdReturn(l) == [l EXCEPT !.rowsMigrated = l.totalMigrated]
Fetched(h, offset, data) ==
  [h EXCEPT !.fetches = @ + 1, !.offsets = Append(@, offset), !.fetched = @ \o data]
\* data = await sourceDb(tableName).select('*').limit(batchSize).offset(offset)
MdFetch ==
  /\ pc = "md_fetch"
  /\ \E o \in Outcomes("source") :
       /\ faults' = o[2]
       /\ IF o[1] = "throw"
          THEN Go("catchTable", Throw("source query failed"), tgt, hist, <<>>)
          ELSE LET data == Batch(collectionName, loc.offset)
                   h == Fetched(hist, loc.offset, data)
               IN IF Len(data) = 0
                  THEN Go("ow_resetSeq2", MdReturn(loc), tgt, h, <<>>)
                  ELSE Go("md_setReplica", [loc EXCEPT !.data = data], tgt, h, <<>>)
  /\ Frame

\* try { SET session_replication_role = replica
MdSetReplica ==
  /\ pc = "md_setReplica"
  /\ \E o \in Outcomes("target") :
       /\ faults' = o[2]
       /\ IF o[1] = "throw"
          THEN Go("fb_setReplica", loc, tgt, hist, <<>>)
          ELSE Go("md_insert", loc, [tgt EXCEPT !.role = "replica"], hist, <<>>)
  /\ Frame

\* await targetDb(tableName).insert(preparedData): all rows or none
MdInsert ==
  /\ pc = "md_insert"
  /\ \E o \in Outcomes("target") :
       /\ faults' = o[2]
       /\ IF o[1] = "ok" /\ \A k \in Range(loc.data) : CanInsert(collectionName, k)
          THEN Go("md_restore", loc, Inserted(collectionName, Range(loc.data)),
                  [Put(hist, Len(loc.data)) EXCEPT !.bulk = @ + 1], <<>>)
          ELSE Go("fb_setReplica", loc, tgt,
                  [Swallow(hist, "bulkInsert") EXCEPT !.bulk = @ + 1], <<>>)
  /\ Frame

\* SET session_replication_role = DEFAULT; totalMigrated += data.length }
MdRestore ==
  /\ pc = "md_restore"
  /\ \E o \in Outcomes("target") :
       /\ faults' = o[2]
       /\ IF o[1] = "throw"
          THEN Go("fb_setReplica", loc, tgt, hist, <<>>)
          ELSE Go("md_next", [loc EXCEPT !.totalMigrated = @ + Len(loc.data)],
                  [tgt EXCEPT !.role = "DEFAULT"], hist, <<>>)
  /\ Frame

\* catch (insertError) { SET session_replication_role = replica
FbSetReplica ==
  /\ pc = "fb_setReplica"
  /\ \E o \in Outcomes("target") :
       /\ faults' = o[2]
       /\ IF o[1] = "throw"
          THEN Go("catchTable", Throw("SET failed"), tgt, hist, <<>>)
          ELSE Go("fb_row", [loc EXCEPT !.row = 1], [tgt EXCEPT !.role = "replica"], hist, <<>>)
  /\ Frame

\* for (const row of preparedData) try { insert(row); totalMigrated++ } catch {}
\* A row fails for what it is (rejected, duplicate key, missing table or column).
FbRow ==
  /\ pc = "fb_row"
  /\ loc.row <= Len(loc.data)
  /\ LET k == loc.data[loc.row]
     IN IF CanInsert(collectionName, k)
        THEN Go("fb_row", [loc EXCEPT !.row = @ + 1, !.totalMigrated = @ + 1],
                Inserted(collectionName, {k}), Put(hist, 1), <<>>)
        ELSE Go("fb_row", [loc EXCEPT !.row = @ + 1], tgt,
                Swallow(hist, "rowInsert"), <<>>)
  /\ UNCHANGED faults
  /\ Frame

\* SET session_replication_role = DEFAULT }  (end of the catch block)
FbRestore ==
  /\ pc = "fb_row"
  /\ loc.row > Len(loc.data)
  /\ \E o \in Outcomes("target") :
       /\ faults' = o[2]
       /\ IF o[1] = "throw"
          THEN Go("catchTable", Throw("SET failed"), tgt,
                  [hist EXCEPT !.restoreThrew = TRUE], <<>>)
          ELSE Go("md_next", loc, [tgt EXCEPT !.role = "DEFAULT"], hist, <<>>)
  /\ Frame

\* offset += batchSize; if (data.length < batchSize) break
LastBatch_Never(data) == FALSE
LastBatch(data) == Len(data) < BatchSize
MdNext ==
  /\ pc = "md_next"
  /\ IF LastBatch(loc.data)
     THEN Go("ow_resetSeq2", MdReturn(loc), tgt, hist, <<>>)
     ELSE Go("md_fetch", [loc EXCEPT !.offset = @ + BatchSize], tgt, hist, <<>>)
  /\ UNCHANGED faults
  /\ Frame

\* await resetSequences(targetDb, collectionName)  (after the data)
OwResetSequences ==
  /\ pc = "ow_resetSeq2"
  /\ ResetSequences("ow_constraints", <<>>)
  /\ Frame

\* copyConstraints (UNIQUE constraints of the source, every exception caught
\* inside; the modelled source tables have none), then "Overwrite complete"
OwCopyConstraints ==
  /\ pc = "ow_constraints"
  /\ \E o \in Outcomes("source") :
       /\ faults' = o[2]
       /\ Go("pushSuccess", loc, tgt,
             IF o[1] = "throw" THEN Swallow(hist, "copyConstraints") ELSE hist,
             Info("Overwrite complete"))
  /\ Frame

\* ------------------------------------------------------------- upsertData
\* const primaryKey = pkQuery.rows[0]?.column_name || "id": one column, the
\* first row of a query without ORDER BY
primaryKey(firstRow) == firstRow
\* pkQuery = await sourceDb.raw(... '"t"'::regclass ...): throws when the
\* source has no such table
UpPrimaryKey ==
  /\ pc = "up_pk"
  /\ \E o \in Outcomes("source") :
       /\ faults' = o[2]
       /\ IF o[1] = "throw" \/ collectionName \notin SourceTables
          THEN Go("catchTable", Throw("source query failed"), tgt, hist, <<>>)
          ELSE \E c \in Range(PrimaryKeyColumns(collectionName)) :
                 Go("up_select", [loc EXCEPT !.primaryKey = primaryKey(c)], tgt, hist, <<>>)
  /\ Frame

\* data = await sourceDb(tableName).select("*")
UpSelect ==
  /\ pc = "up_select"
  /\ \E o \in Outcomes("source") :
       /\ faults' = o[2]
       /\ IF o[1] = "throw"
          THEN Go("catchTable", Throw("source query failed"), tgt, hist, <<>>)
          ELSE Go("up_row", [loc EXCEPT !.data = SourceRows(collectionName), !.row = 1,
                                        !.totalMigrated = 0], tgt, hist, <<>>)
  /\ Frame

\* for (const row of data) try { insert(row).onConflict(pk).merge(); count++ } catch {}
UpRow ==
  /\ pc = "up_row"
  /\ loc.row <= Len(loc.data)
  /\ LET k == loc.data[loc.row]
         t == collectionName
     IN IF CanUpsert(t, k)
        THEN Go("up_row", [loc EXCEPT !.row = @ + 1, !.totalMigrated = @ + 1],
                Upserted(t, k), [Put(hist, 1) EXCEPT !.upserted = @ \cup {k}], <<>>)
        ELSE Go("up_row", [loc EXCEPT !.row = @ + 1], tgt, Swallow(hist, "rowInsert"), <<>>)
  /\ UNCHANGED faults
  /\ Frame

\* return count; "Upsert complete" log
UpDone ==
  /\ pc = "up_row"
  /\ loc.row > Len(loc.data)
  /\ Go("pushSuccess", MdReturn(loc), tgt, hist, Info("Upsert complete"))
  /\ UNCHANGED faults
  /\ Frame

\* ------------------------------------------------------- insertIgnoreData
\* data = await sourceDb(tableName).select("*"): throws when the source has
\* no such table
IgSelect ==
  /\ pc = "ig_select"
  /\ \E o \in Outcomes("source") :
       /\ faults' = o[2]
       /\ IF o[1] = "throw" \/ collectionName \notin SourceTables
          THEN Go("catchTable", Throw("source query failed"), tgt, hist, <<>>)
          ELSE Go("ig_row", [loc EXCEPT !.data = SourceRows(collectionName), !.row = 1,
                                        !.totalMigrated = 0], tgt, hist, <<>>)
  /\ Frame

\* for (const row of data) try { insert(row); inserted++ } catch {}
IgRow ==
  /\ pc = "ig_row"
  /\ loc.row <= Len(loc.data)
  /\ LET k == loc.data[loc.row]
     IN IF CanInsert(collectionName, k)
        THEN Go("ig_row", [loc EXCEPT !.row = @ + 1, !.totalMigrated = @ + 1],
                Inserted(collectionName, {k}), Put(hist, 1), <<>>)
        ELSE Go("ig_row", [loc EXCEPT !.row = @ + 1], tgt, Swallow(hist, "rowInsert"), <<>>)
  /\ UNCHANGED faults
  /\ Frame

\* return inserted; "Insert ignore complete" log
IgDone ==
  /\ pc = "ig_row"
  /\ loc.row > Len(loc.data)
  /\ Go("pushSuccess", MdReturn(loc), tgt, hist, Info("Insert ignore complete"))
  /\ UNCHANGED faults
  /\ Frame

\* ------------------------------------------------------------------ system
Next ==
  \/ PostExecute
  \/ LoadSourceConn \/ LoadTargetConn \/ OpenSource \/ OpenTarget
  \/ StartCollection \/ GetTableColumns \/ PushSuccess \/ CatchTable
  \/ MsSourceCols \/ MsTableExists \/ MsCreateSequences \/ MsCreateTable
  \/ MsConfigSequences \/ MsPrimaryKey \/ MsTargetCols \/ MsAddColumn \/ MsSyncIndexes
  \/ SchemaLogs
  \/ OwHasTable \/ OwTableHasData \/ OwSetReplica \/ OwTruncate \/ OwResetSeqTruncate
  \/ OwFinally
  \/ MdCount \/ MdFetch \/ MdSetReplica \/ MdInsert \/ MdRestore
  \/ FbSetReplica \/ FbRow \/ FbRestore \/ MdNext
  \/ OwResetSequences \/ OwCopyConstraints
  \/ UpPrimaryKey \/ UpSelect \/ UpRow \/ UpDone
  \/ IgSelect \/ IgRow \/ IgDone
  \/ FinalUpdate \/ CatchJob \/ DestroySource \/ DestroyTarget

Spec == Init /\ [][Next]_vars

\* ------------------------------------------------------- the same job again
\* The request of a completed job is posted again (new migration record, new
\* handles and sessions); source and target are left as the job left them.
RunAgain ==
  /\ pc = "done"
  /\ hist.run < MaxRuns
  /\ faults = 0    \* bound: the request is repeated after runs without a transient throw
  /\ migrations.status = "completed"
  /\ \E o \in Outcomes("app") :
       /\ faults' = o[2]
       /\ IF o[1] = "ok"
          THEN /\ migrations' = [NoMigration EXCEPT !.status = "running"]
               /\ pc' = "loadSource"
               /\ loc' = InitLoc
               /\ sourceDb' = "undefined"
               /\ targetDb' = "undefined"
               /\ migration_logs' = <<>>
               /\ tgt' = [tgt EXCEPT !.role = "DEFAULT"]
               /\ hist' = [InitHist EXCEPT
                             !.entry = Shape(tgt),
                             !.run = hist.run + 1,
                             !.prev = [results |-> loc.results, rows |-> tgt.rows,
                                       old |-> tgt.old, clean |-> hist.clean]]
          ELSE /\ pc' = "http500"
               /\ UNCHANGED <<migrations, loc, sourceDb, targetDb, migration_logs, tgt, hist>>
  /\ UNCHANGED <<connections, job, env>>

NextSeq == Next \/ RunAgain
SpecSeq == Init /\ [][NextSeq]_vars


\* ===================================================================== claims
JobEnded == pc = "done"
Results == loc.results
ErrorLogged(i) == \E n \in 1..Len(hist.issued) :
                    hist.issued[n].task = i /\ hist.issued[n].level = "error"
FailedRecorded(i) ==
  /\ Results[i].status = "failed"
  /\ Results[i].error # NoErr
  /\ ErrorLogged(i)

\* C1: the status of the migration record only moves forward: it is created
\* as running by the POST handler, moves at most once to completed or to
\* failed, and never leaves completed or failed, also when the final status
\* update throws.
StatusRank(st) == IF st = "none" THEN 0 ELSE IF st = "running" THEN 1 ELSE 2
C1_StatusForward ==
  [][ /\ StatusRank(migrations'.status) >= StatusRank(migrations.status)
      /\ migrations.status \in {"completed", "failed"}
           => migrations'.status = migrations.status
      /\ (migrations.status = "none" /\ migrations'.status # "none")
           => (migrations'.status = "running" /\ pc = "idle") ]_vars
\* the completed update threw and the catch block wrote failed
C1_Witness ==
  JobEnded /\ migrations.status = "failed" /\ loc.err = "status update failed"

\* C2: whenever the record has status completed, its result has one entry
\* per task of the input list, in input order, each with the task's table
\* name and effective rule (collection.rule, or globalRule when absent).
C2_ResultPerTask ==
  migrations.status = "completed" =>
    /\ migrations.hasResult
    /\ Len(migrations.result) = Len(job.collections)
    /\ \A i \in 1..Len(job.collections) :
         /\ migrations.result[i].collection = job.collections[i].name
         /\ migrations.result[i].rule =
              (IF job.collections[i].rule = NoRule THEN job.globalRule
               ELSE job.collections[i].rule)
\* a completed job of two tasks, one failed and one successful, one of them
\* taking its rule from globalRule
C2_Witness ==
  /\ migrations.status = "completed"
  /\ Len(migrations.result) = 2
  /\ migrations.result[1].status = "failed"
  /\ migrations.result[2].status = "success"
  /\ job.collections[1].rule = "overwrite"
  /\ job.collections[2].rule = NoRule

\* C3 as stated: every exception thrown while a table is processed, also one
\* thrown inside migrateSchema, the sequence reset or the constraint copy,
\* gives that table a TableResult with status failed.
SwallowedInside(i) ==
  \E e \in hist.swallowed :
    e[1] = i /\ e[2] \in {"migrateSchema", "resetSequences", "copyConstraints"}
C4_OverwriteRowCount ==
  (JobEnded /\ faults = 0) =>
    \A i \in 1..Len(Results) :
      (Results[i].rule = "overwrite" /\ Results[i].status = "success")
        => RowCount(Results[i].collection) = Len(SourceRows(Results[i].collection))

\* C5: the session role is DEFAULT whenever executeMigration starts the next
\* table, records a table as failed, or finishes (a closing SET ... = DEFAULT
\* that itself threw is left aside).
C5_RoleRestored ==
  (pc \in {"loop", "catchTable", "finally", "finallyTarget", "done"}
   /\ ~hist.restoreThrew)
    => tgt.role = "DEFAULT"

\* C6: when executeMigration ends, every handle that was opened has been
\* destroyed (a handle whose own destroy() rejected is left aside).
C6_HandlesDestroyed ==
  JobEnded =>
    /\ sourceDb = "open" => "source" \in hist.destroyThrew
    /\ targetDb = "open" => "target" \in hist.destroyThrew

\* C7: when a connection record is missing, the job ends failed with
\* error_message "Source or target connection not found", no table is
\* processed, no statement is issued against source or target, no result is
\* written.
C7_MissingConnection ==
  (JobEnded /\ hist.notFound) =>
    /\ migrations.status = "failed"
    /\ migrations.error_message = NotFoundMsg
    /\ loc.idx = 0
    /\ ~hist.dbTouched
    /\ ~migrations.hasResult

\* C8: (runs without transient throws) a job ends failed exactly when a
\* connection record is missing or the source or target database cannot be
\* reached, and completed otherwise.
C8_FailedIffConnectionStage ==
  (JobEnded /\ faults = 0) =>
    /\ migrations.status = "failed"
         <=> (hist.notFound \/ env.outage \in {"sourceDown", "targetDown"})
    /\ migrations.status \in {"failed", "completed"}

\* C9: when executeMigration has ended, the record is completed or failed.
C9_TerminalStatus ==
  JobEnded => migrations.status \in {"completed", "failed"}

\* C10: the rowsMigrated of a successful schema task is the number of
\* columns ALTER TABLE ADD COLUMN added for it (0 when the table was created
\* or nothing changed), a failed schema task added none, and no step of a
\* schema task changes the rows of a target table.
ColumnsAltered(i) == Cardinality({e \in hist.altered : e[1] = i})
InSchemaTask == loc.idx \in 1..Len(job.collections) /\ pc # "loop" /\ rule = "schema"
C10_SchemaCountsColumns ==
  /\ [](\A i \in 1..Len(Results) :
          Results[i].rule = "schema" =>
            /\ Results[i].status = "success" => Results[i].rowsMigrated = ColumnsAltered(i)
            /\ Results[i].status = "failed" => ColumnsAltered(i) = 0)
  /\ [][InSchemaTask => tgt'.rows = tgt.rows]_vars
\* a schema task added two columns to a table that holds one row; another
\* schema task created its table and reports 0
C10_Witness ==
  /\ JobEnded
  /\ Len(Results) = 2
  /\ Results[1].rule = "schema" /\ Results[1].rowsMigrated = 2
  /\ ColumnsAltered(1) = 2 /\ RowCount(Results[1].collection) = 1
  /\ Results[2].rule = "schema" /\ Results[2].rowsMigrated = 0
  /\ ColumnsAltered(2) = 0 /\ tgt.exists[Results[2].collection]
  /\ Results[2].collection = "child"

\* the target has table t with every column name of the source's t
Matches(shape, t) == shape.exists[t] /\ Range(SourceColumns(t)) \subseteq shape.cols[t]
\* migrateSchema has returned to case "schema" without a change
ReturnedNoOp ==
  /\ ~loc.changes.tableCreated
  /\ loc.changes.sequencesCreated = 0
  /\ loc.changes.columnsAdded = <<>>
  /\ Shape(tgt) = hist.entry
SecondSchemaRun(i) ==
  /\ hist.run > 1 /\ pc = "sc_logs" /\ loc.idx = i
  /\ hist.prev.results[i].status = "success" /\ i \in hist.prev.clean

AddedByAlter(t, c) == \E i \in 1..Len(job.collections) :
                        job.collections[i].name = t /\ <<i, c>> \in hist.altered
NotNullNoDefault(t, c) ==
  ColumnInfo(t, c).is_nullable = "NO" /\ ColumnInfo(t, c).column_default = null

\* C12: a source column that is NOT NULL and has no default, added by a
\* schema task to an existing target table, is NOT NULL in the target, has
\* the null-fill default of its type, and the rows that existed hold it.
C12_AddedColumnNotNull ==
  \A t \in Tables : \A c \in Range(TableColumns(t)) :
    (AddedByAlter(t, c) /\ NotNullNoDefault(t, c))
      => LET d == getDefaultValueForType(ColumnInfo(t, c).data_type)
         IN /\ c \in tgt.notnull[t]
            /\ <<c, d>> \in tgt.dflt[t]
            /\ \A v \in {null, d} : <<c, v>> \in tgt.fill[t] => v = d

\* upsertData has returned for a table with a single-column primary key in
\* source and target
UpsertReturned ==
  /\ pc = "pushSuccess" /\ rule = "upsert"
  /\ Len(PrimaryKeyColumns(collectionName)) = 1
  /\ tgt.pkcols[collectionName] = Range(PrimaryKeyColumns(collectionName))
\* target row k of the task's table is as it was when the task started
RowUnchanged(k) ==
  /\ tgt.rows[collectionName][k] = hist.before.rows[k]
  /\ (k \in tgt.old[collectionName]) = (k \in hist.before.old)
\* target row k of the task's table is there once with the source's values
HoldsSourceRow(k) ==
  tgt.rows[collectionName][k] = 1 /\ k \notin tgt.old[collectionName]

\* C13 as stated: after a successful upsert task on a table with a
\* single-column primary key on both sides the target holds every source row
\* with the source's values, rows with other keys are unchanged, and
\* rowsMigrated is the number of source rows.
C13_UpsertAllRows ==
  UpsertReturned =>
    /\ \A k \in Range(loc.data) : HoldsSourceRow(k)
    /\ \A k \in (1..MaxRows + 1) \ Range(loc.data) : RowUnchanged(k)
    /\ loc.totalMigrated = Len(loc.data)

\* C13 amended: the target holds every source row whose upsert statement
\* succeeded, with the source's values; every other row, the source rows
\* whose statement failed included, is unchanged; rowsMigrated is the number
\* of statements that succeeded.
C13_UpsertSucceededRows ==
  UpsertReturned =>
    /\ hist.upserted \subseteq Range(loc.data)
    /\ \A k \in hist.upserted : HoldsSourceRow(k)
    /\ \A k \in (1..MaxRows + 1) \ hist.upserted : RowUnchanged(k)
    /\ loc.totalMigrated = Cardinality(hist.upserted)
\* one row updated, one inserted, one refused, one old row kept
C13_Witness ==
  /\ UpsertReturned
  /\ Len(loc.data) = 3 /\ loc.totalMigrated = 2
  /\ 1 \in hist.before.old /\ 1 \in hist.upserted
  /\ \E k \in hist.upserted : hist.before.rows[k] = 0
  /\ OldKey \in tgt.old[collectionName]

\* C14: an upsert or ignore task on a table the target does not have creates
\* the table from the source's definition and then inserts the source's rows.
C14_CreatesMissingTable ==
  (/\ pc = "pushSuccess" /\ rule \in {"upsert", "ignore"}
   /\ ~hist.before.exists /\ faults = 0)
    => /\ tgt.exists[collectionName]
       /\ \A k \in Range(loc.data) \ env.rejects : tgt.rows[collectionName][k] = 1

\* every task of the job has rule ignore
IgnoreJob == \A i \in 1..Len(job.collections) :
               EffectiveRule(job.collections[i], job.globalRule) = "ignore"
\* rows of target table t with key k that hold the source row's values
SourceCopies(t, k) == tgt.rows[t][k] - (IF k \in tgt.old[t] THEN 1 ELSE 0)

\* C15: across runs of jobs with rule ignore the target table never loses a
\* row, the rows it had are unchanged, every source row is in the target at
\* most once (a repeated run adds no row), and rowsMigrated is the number of
\* rows the run inserted.
C15_IgnoreMonotone ==
  (IgnoreJob /\ pc \in {"ig_row", "pushSuccess"})
    => LET t == collectionName
       IN /\ \A k \in 1..MaxRows + 1 : tgt.rows[t][k] >= hist.before.rows[k]
          /\ \A k \in 1..MaxRows + 1 : (k \in tgt.old[t]) = (k \in hist.before.old)
          /\ \A k \in Range(SourceRows(t)) : SourceCopies(t, k) <= 1
          /\ loc.totalMigrated = hist.put
          /\ RowCount(t) = BagSum(hist.before.rows, MaxRows + 1) + loc.totalMigrated

\* every task of the job has rule overwrite
OverwriteJob == \A i \in 1..Len(job.collections) :
                  EffectiveRule(job.collections[i], job.globalRule) = "overwrite"
\* a later run of the request has ended; no call of any run threw for a
\* transient reason
RepeatedRunEnded == hist.run > 1 /\ pc = "done" /\ faults = 0

\* C16: the same overwrite job run a second time against the unchanged source
\* leaves the same target rows and row counts as the first run did, and
\* gives the same TableResult status and rowsMigrated for every table.
C16_OverwriteIdempotent ==
  (OverwriteJob /\ RepeatedRunEnded)
    => /\ tgt.rows = hist.prev.rows
       /\ tgt.old = hist.prev.old
       /\ Len(Results) = Len(hist.prev.results)
       /\ \A i \in 1..Len(Results) :
            /\ Results[i].status = hist.prev.results[i].status
            /\ Results[i].rowsMigrated = hist.prev.results[i].rowsMigrated
\* two tables with rows overwritten twice, both times with success
C16_Witness ==
  /\ OverwriteJob /\ RepeatedRunEnded
  /\ Len(Results) = 2
  /\ \A i \in 1..2 : Results[i].status = "success" /\ Results[i].rowsMigrated = MaxRows
  /\ tgt.rows = hist.prev.rows

\* C17: a request with a task whose rule is not schema, overwrite, upsert or
\* ignore is rejected by POST /api/migrations/execute: no accepted job has
\* such a task and no TableResult carries such a rule.
C17_UnknownRuleRejected ==
  /\ \A i \in 1..Len(job.collections) :
       EffectiveRule(job.collections[i], job.globalRule) \in Rules
  /\ \A i \in 1..Len(Results) : Results[i].rule \in Rules

\* no call throws except, under logsDown, every insert into migration_logs
QuietRun == env.outage \in {"none", "logsDown"} /\ faults = 0
DataRules == {"overwrite", "upsert", "ignore"}
\* rows of the source table the target accepts
Accepted(t) == Range(SourceRows(t)) \ env.rejects

\* C18: a failing insert into migration_logs is swallowed.  With every log
\* insert failing, and no other call throwing, each TableResult has the status
\* it has when the log inserts succeed (failed exactly for a data rule on a
\* table the source lacks), an overwrite writes the rows it writes otherwise,
\* and the job ends completed.
C18_LogFailureSwallowed ==
  QuietRun =>
    /\ \A i \in 1..Len(Results) :
         (Results[i].status = "failed")
           <=> (Results[i].collection \notin SourceTables /\ Results[i].rule \in DataRules)
    /\ (/\ pc = "pushSuccess" /\ rule = "overwrite"
        /\ Range(SourceColumns(collectionName)) \subseteq tgt.cols[collectionName])
         => /\ \A k \in Accepted(collectionName) : tgt.rows[collectionName][k] = 1
            /\ RowCount(collectionName) = Cardinality(Accepted(collectionName))
    /\ pc = "done" => /\ migrations.status = "completed"
                      /\ Len(Results) = Len(job.collections)
    /\ env.outage = "logsDown" => migration_logs = <<>>
\* all log inserts failed; two tables were overwritten with rows and the job
\* is completed
C18_Witness ==
  /\ env.outage = "logsDown" /\ faults = 0 /\ pc = "done"
  /\ hist.issued # <<>> /\ migration_logs = <<>>
  /\ migrations.status = "completed"
  /\ Len(Results) = 2
  /\ \A i \in 1..2 : /\ Results[i].rule = "overwrite" /\ Results[i].status = "success"
                     /\ Results[i].rowsMigrated = MaxRows

\* upsertData has returned for a table whose primary key has several columns,
\* in the source and in the target alike
CompositeUpsertReturned ==
  /\ pc = "pushSuccess" /\ rule = "upsert"
  /\ Len(PrimaryKeyColumns(collectionName)) > 1
  /\ tgt.pkcols[collectionName] = Range(PrimaryKeyColumns(collectionName))

\* C19: for a table with a composite primary key upsertData uses all key
\* columns as the conflict target; rows whose key exists are updated, the
\* others inserted, and rowsMigrated is the number of source rows.
C19_CompositeKeyUpsert ==
  (/\ CompositeUpsertReturned /\ loc.data # <<>>
   /\ \A k \in Range(loc.data) : FkOk(collectionName, k))
    => /\ {loc.primaryKey} = Range(PrimaryKeyColumns(collectionName))
       /\ \A k \in Range(loc.data) : HoldsSourceRow(k)
       /\ loc.totalMigrated = Len(loc.data)

\* migrateData has returned, and the bulk insert of one of its batches failed
ReturnedAfterBulkFailure ==
  pc = "ow_resetSeq2" /\ <<loc.idx, "bulkInsert">> \in hist.swallowed

\* C20: when the bulk insert of a batch failed, the rows of the batch were
\* inserted one by one, and the count migrateData returns is the number of
\* rows its statements inserted in the target (batches that succeeded plus
\* single rows that succeeded).
C20_FallbackCount ==
  ReturnedAfterBulkFailure
    => loc.rowsMigrated = hist.put

\* ceil(n / BatchSize)
CeilDiv(n, d) == (n + d - 1) \div d
\* control is inside migrateData's while loop
InMigrateData ==
  pc \in {"md_fetch", "md_setReplica", "md_insert", "md_restore",
          "fb_setReplica", "fb_row", "md_next"}
\* migrateData has returned and none of its calls threw
MigrateDataReturned == pc = "ow_resetSeq2" /\ faults = 0

OverwriteEnded ==
  /\ pc = "pushSuccess" /\ rule = "overwrite"
  /\ <<loc.idx, "resetSequences">> \notin hist.swallowed

\* C22: after a successful overwrite task the sequence owned by the id
\* column of the table has next value max(id) + 1, or 1 for an empty table,
\* for integer and for bigint columns.
C22_SequenceAtMaxPlusOne ==
  (OverwriteEnded /\ faults = 0 /\ collectionName \in tgt.owned)
    => tgt.nextval[collectionName] = MaxKey(collectionName) + 1

\* --------------------------------------- the type mapping of migrateSchema
\* A second specification: one source column descriptor at a time goes
\* through the CREATE TABLE branch of migrateSchema and is read back from the
\* target.  env holds the source's information_schema rows, tgt the table the
\* target has, loc the locals of migrateSchema.
MaxLength == 2      \* largest character_maximum_length / numeric_precision drawn
\* udt_name is a list of tokens, "_" being the underscore
Udt(dataType) ==
  CASE dataType = "character varying" -> <<"varchar">>
    [] dataType = "character" -> <<"bpchar">>
    [] dataType = "integer" -> <<"int4">>
    [] dataType = "bigint" -> <<"int8">>
    [] dataType = "smallint" -> <<"int2">>
    [] dataType = "boolean" -> <<"bool">>
    [] dataType = "timestamp without time zone" -> <<"timestamp">>
    [] dataType = "timestamp with time zone" -> <<"timestamptz">>
    [] dataType = "time without time zone" -> <<"time">>
    [] dataType = "double precision" -> <<"float8">>
    [] dataType = "real" -> <<"float4">>
    [] OTHER -> <<dataType>>
Column(dataType, udt, nullable, len, precision, scale) ==
  [column_name |-> "c", data_type |-> dataType, udt_name |-> udt,
   is_nullable |-> nullable, character_maximum_length |-> len,
   numeric_precision |-> precision, numeric_scale |-> scale, column_default |-> null]
\* the descriptors a PostgreSQL source can report for the mapped types
SourceDescriptors ==
  UNION {
    {Column(d, Udt(d), n, Absent, Absent, Absent) : d \in
      {"integer", "bigint", "smallint", "boolean", "text", "json", "jsonb", "uuid",
      "timestamp without time zone", "timestamp with time zone", "date",
      "time without time zone", "double precision", "real", "bytea", "interval"}}
    \cup {Column(d, Udt(d), n, len, Absent, Absent) :
            d \in {"character varying", "character"}, len \in {Absent} \cup 1..MaxLength}
    \cup {Column("numeric", Udt("numeric"), n, Absent, p, s) :
            p \in MaxLength..(MaxLength + 1), s \in 0..MaxLength}
    \cup {Column("numeric", Udt("numeric"), n, Absent, Absent, Absent)}
    \cup {Column("ARRAY", <<"_", e>>, n, Absent, Absent, Absent) : e \in {"int4", "text"}}
    : n \in {"YES", "NO"}}

\* x || d
OrDefault(x, d) == IF x = Absent \/ x = 0 THEN d ELSE x
\* col.udt_name.replace('_', ''): the first underscore is removed
StripUnderscore(udt) ==
  IF \E i \in 1..Len(udt) : udt[i] = "_"
  THEN LET i == CHOOSE i \in 1..Len(udt) :
                  udt[i] = "_" /\ \A j \in 1..(i - 1) : udt[j] # "_"
       IN SubSeq(udt, 1, i - 1) \o SubSeq(udt, i + 1, Len(udt))
  ELSE udt
\* the SQL type text, as type name, arguments and [] suffix
SqlType(name, args, array) == [name |-> name, args |-> args, array |-> array]
columnToSqlType(col) ==
  CASE col.data_type = "character varying" ->
         SqlType(<<"varchar">>, <<OrDefault(col.character_maximum_length, 255)>>, FALSE)
    [] col.data_type = "character" ->
         SqlType(<<"char">>, <<OrDefault(col.character_maximum_length, 1)>>, FALSE)
    [] col.data_type = "numeric" ->
         SqlType(<<"numeric">>, <<OrDefault(col.numeric_precision, 10),
                                  OrDefault(col.numeric_scale, 2)>>, FALSE)
    [] col.data_type \in {"integer", "bigint", "smallint", "boolean", "text", "json",
                          "jsonb", "uuid", "date", "double precision", "real", "bytea"} ->
         SqlType(<<col.data_type>>, <<>>, FALSE)
    [] col.data_type = "timestamp without time zone" -> SqlType(<<"timestamp">>, <<>>, FALSE)
    [] col.data_type = "timestamp with time zone" -> SqlType(<<"timestamptz">>, <<>>, FALSE)
    [] col.data_type = "time without time zone" -> SqlType(<<"time">>, <<>>, FALSE)
    [] col.data_type = "ARRAY" -> SqlType(StripUnderscore(col.udt_name), <<>>, TRUE)
    [] OTHER -> SqlType(IF col.udt_name # <<>> THEN col.udt_name ELSE <<col.data_type>>,
                        <<>>, FALSE)
\* `"name" type [NOT NULL]` of CREATE TABLE (the drawn columns have no default)
ColumnDef(col) ==
  [column_name |-> col.column_name, type |-> columnToSqlType(col),
   notNull |-> col.is_nullable = "NO"]

\* PostgreSQL: the information_schema.columns row of a column declared as def
PgDataType(typeName) ==
  CASE typeName = <<"varchar">> -> "character varying"
    [] typeName \in {<<"char">>, <<"bpchar">>} -> "character"
    [] typeName \in {<<"int4">>, <<"integer">>} -> "integer"
    [] typeName \in {<<"int8">>, <<"bigint">>} -> "bigint"
    [] typeName \in {<<"int2">>, <<"smallint">>} -> "smallint"
    [] typeName \in {<<"bool">>, <<"boolean">>} -> "boolean"
    [] typeName = <<"timestamp">> -> "timestamp without time zone"
    [] typeName = <<"timestamptz">> -> "timestamp with time zone"
    [] typeName = <<"time">> -> "time without time zone"
    [] typeName \in {<<"float8">>, <<"double precision">>} -> "double precision"
    [] typeName \in {<<"float4">>, <<"real">>} -> "real"
    [] OTHER -> typeName[1]
PgColumn(def) ==
  LET ty == def.type
      nullable == IF def.notNull THEN "NO" ELSE "YES"
  IN IF ty.array
     THEN Column("ARRAY", <<"_">> \o Udt(PgDataType(ty.name)), nullable,
                 Absent, Absent, Absent)
     ELSE LET d == PgDataType(ty.name)
          IN Column(d, Udt(d), nullable,
                    IF d \in {"character varying", "character"} THEN ty.args[1] ELSE Absent,
                    IF d = "numeric" THEN ty.args[1] ELSE Absent,
                    IF d = "numeric" THEN ty.args[2] ELSE Absent)

InitTypes ==
  /\ pc = "ms_createTable"
  /\ env \in {[sourceColumns |-> <<c>>] : c \in SourceDescriptors}
  /\ tgt = [exists |-> FALSE, columns |-> <<>>]
  /\ loc = [columnDefs |-> <<>>, targetColumns |-> <<>>]
  /\ job = [collections |-> <<[name |-> "parent", rule |-> "schema"]>>,
            globalRule |-> "schema"]
  /\ migrations = [NoMigration EXCEPT !.status = "running"]
  /\ connections = {"src", "tgt"}
  /\ migration_logs = <<>>
  /\ sourceDb = "open"
  /\ targetDb = "open"
  /\ faults = 0
  /\ hist = [issued |-> <<>>]

\* columnDefs = sourceColumns.map(...); await targetDb.raw(createTableSQL)
TypesCreateTable ==
  /\ pc = "ms_createTable"
  /\ LET columnDefs == [i \in 1..Len(env.sourceColumns) |-> ColumnDef(env.sourceColumns[i])]
     IN /\ loc' = [loc EXCEPT !.columnDefs = columnDefs]
        /\ tgt' = [exists |-> TRUE,
                   columns |-> [i \in 1..Len(columnDefs) |-> PgColumn(columnDefs[i])]]
  /\ pc' = "ms_created"
  /\ UNCHANGED <<migrations, connections, migration_logs, job, sourceDb, targetDb,
                 env, faults, hist>>

\* getTableColumnsDetailed(targetDb, tableName) on the created table
TypesIntrospect ==
  /\ pc = "ms_created"
  /\ loc' = [loc EXCEPT !.targetColumns = tgt.columns]
  /\ pc' = "ms_introspected"
  /\ UNCHANGED <<migrations, connections, migration_logs, job, sourceDb, targetDb,
                 tgt, env, faults, hist>>

NextTypes == TypesCreateTable \/ TypesIntrospect
SpecTypes == InitTypes /\ [][NextTypes]_vars

\* the target column has the source column's type: the same data_type and
\* udt_name, and the source's length, precision and scale where it has them
SameType(s, t) ==
  /\ t.data_type = s.data_type
  /\ t.udt_name = s.udt_name
  /\ s.character_maximum_length # Absent
       => t.character_maximum_length = s.character_maximum_length
  /\ s.numeric_precision # Absent => t.numeric_precision = s.numeric_precision
  /\ s.numeric_scale # Absent => t.numeric_scale = s.numeric_scale

\* C23: for every source column descriptor of the type mapping table, with
\* any length, precision and scale (scale 0 and absent precision included),
\* the table created by migrateSchema, read back, has column by column the
\* same name, the same mapped type and the same nullability as the source.
C23_TypeRoundTrip ==
  pc = "ms_introspected"
    => /\ Len(loc.targetColumns) = Len(env.sourceColumns)
       /\ \A i \in 1..Len(env.sourceColumns) :
            /\ loc.targetColumns[i].column_name = env.sourceColumns[i].column_name
            /\ loc.targetColumns[i].is_nullable = env.sourceColumns[i].is_nullable
            /\ SameType(env.sourceColumns[i], loc.targetColumns[i])


\* ------------------------------------------------------ prepareRowForInsert
\* A third specification: prepareRowForInsert applied to one row.  env holds
\* the arguments (row, jsonColumns, arrayColumns), loc the function's locals.
RowKeys == <<"a", "b">>
JsValue(kind, text) == [kind |-> kind, text |-> text]
JsNullValue == JsValue("null", <<>>)
\* the values a row can carry: text is what tells two values of a kind apart
\* (among the strings only <<"json">> is a text JSON.parse accepts)
RowValues ==
  {JsNullValue, JsValue("undefined", <<>>), JsValue("number", <<"1">>),
   JsValue("object", <<"plain">>), JsValue("object", <<"circular">>),
   JsValue("array", <<"plain">>), JsValue("date", <<>>),
   JsValue("string", <<"json">>), JsValue("string", <<"text">>)}
\* typeof value === 'object'
IsObject(value) == value.kind \in {"object", "array", "date"}
\* JSON.stringify throws on a structure that refers to itself
StringifyThrows(value) == value.text = <<"circular">>
JSONstringify(value) == JsValue("string", <<"stringify", value.kind>> \o value.text)
\* `{${value.map(...).join(',')}}`
ArrayLiteral(value) == JsValue("string", <<"{">> \o value.text \o <<"}">>)

\* the body of the for loop of prepareRowForInsert for one entry
PreparedValue(key, value, jsonColumns, arrayColumns) ==
  IF value.kind \in {"null", "undefined"} THEN JsNullValue
  ELSE IF key \in jsonColumns
  THEN IF IsObject(value)
       THEN (IF StringifyThrows(value) THEN JsValue("string", <<"{", "}">>) ELSE JSONstringify(value))
       ELSE IF value.kind = "string"
       THEN (IF value.text # <<"json">> THEN JSONstringify(value) ELSE value)
       ELSE value
  ELSE IF key \in arrayColumns
  THEN (IF value.kind = "array" THEN ArrayLiteral(value) ELSE value)
  ELSE IF IsObject(value) /\ value.kind # "date"
  THEN (IF StringifyThrows(value) THEN JsNullValue ELSE JSONstringify(value))
  ELSE value

InitPrepare ==
  /\ pc = "prepare"
  /\ env \in {[row |-> [i \in 1..Len(RowKeys) |-> r[i]], jsonColumns |-> j,
               arrayColumns |-> a] :
                r \in [1..Len(RowKeys) -> RowValues],
                j \in SUBSET Range(RowKeys), a \in SUBSET Range(RowKeys)}
  /\ env.jsonColumns \cap env.arrayColumns = {}
  /\ loc = [prepared |-> <<>>]
  /\ tgt = [exists |-> FALSE, columns |-> <<>>]
  /\ job = [collections |-> <<[name |-> "parent", rule |-> "overwrite"]>>,
            globalRule |-> "overwrite"]
  /\ migrations = [NoMigration EXCEPT !.status = "running"]
  /\ connections = {"src", "tgt"}
  /\ migration_logs = <<>>
  /\ sourceDb = "open"
  /\ targetDb = "open"
  /\ faults = 0
  /\ hist = [issued |-> <<>>]

\* one turn of `for (const [key, value] of Object.entries(row))`
PrepareEntry ==
  /\ pc = "prepare"
  /\ Len(loc.prepared) < Len(RowKeys)
  /\ LET i == Len(loc.prepared) + 1
     IN loc' = [loc EXCEPT !.prepared =
                  Append(@, PreparedValue(RowKeys[i], env.row[i],
                                          env.jsonColumns, env.arrayColumns))]
  /\ UNCHANGED <<pc, migrations, connections, migration_logs, job, sourceDb, targetDb,
                 tgt, env, faults, hist>>

\* return prepared
PrepareReturn ==
  /\ pc = "prepare"
  /\ Len(loc.prepared) = Len(RowKeys)
  /\ pc' = "prepared"
  /\ UNCHANGED <<migrations, connections, migration_logs, job, sourceDb, targetDb,
                 loc, tgt, env, faults, hist>>

NextPrepare == PrepareEntry \/ PrepareReturn
SpecPrepare == InitPrepare /\ [][NextPrepare]_vars

\* entry i is serialized by prepareRowForInsert and its serialization fails
SerializationFails(i) ==
  /\ IsObject(env.row[i])
  /\ StringifyThrows(env.row[i])
  /\ RowKeys[i] \in env.jsonColumns \/ RowKeys[i] \notin env.arrayColumns

\* C24: when serializing a value fails inside prepareRowForInsert, the
\* prepared row holds null for that column whatever the column's kind (JSON,
\* JSONB or other), every other column is prepared as it is in a row of its
\* own, and prepareRowForInsert returns.
C24_FailedSerializationIsNull ==
  /\ pc = "prepared" =>
       \A i \in 1..Len(RowKeys) :
         IF SerializationFails(i)
         THEN loc.prepared[i] = JsNullValue
         ELSE loc.prepared[i] = PreparedValue(RowKeys[i], env.row[i],
                                              env.jsonColumns, env.arrayColumns)
  /\ (pc = "prepare" /\ Len(loc.prepared) = Len(RowKeys)) => ENABLED PrepareReturn


\* ------------------------------------------------------- initializeDatabase
\* A fourth specification: startServer calling initializeDatabase on the
\* application database, and the server being started again.  Here tgt is
\* the application database's schema, loc the locals of initializeDatabase.
AppTables == <<"connections", "migrations", "migration_logs", "rule_presets", "rule_items">>
\* table.uuid(..).references('id').inTable(..)
AppReferences(t) ==
  CASE t = "migrations" -> {"connections"}
    [] t = "migration_logs" -> {"migrations"}
    [] OTHER -> {}
\* the schemas the application database can have when the server starts
AppSchemas ==
  {s \in [tables : SUBSET Range(AppTables), ssl : BOOLEAN] :
     /\ \A t \in s.tables : AppReferences(t) \subseteq s.tables
     /\ s.ssl => "connections" \in s.tables}

InitDb ==
  /\ pc = "id_hasTable"
  /\ tgt \in AppSchemas
  /\ loc = [hasConnectionsTable |-> FALSE, hasTable |-> FALSE, table |-> 1]
  /\ hist = [run |-> 1, initial |-> tgt.tables, created |-> {}, outcomes |-> <<>>]
  /\ env = [outage |-> "none"]
  /\ job = [collections |-> <<>>, globalRule |-> "schema"]
  /\ migrations = NoMigration
  /\ connections = {}
  /\ migration_logs = <<>>
  /\ sourceDb = "closed"
  /\ targetDb = "closed"
  /\ faults = 0

IdUnchanged == <<migrations, connections, migration_logs, job, sourceDb, targetDb,
                 env, faults>>

\* await appDb.schema.hasTable(name), for connections and the later tables
IdHasTable ==
  /\ pc = "id_hasTable"
  /\ LET t == AppTables[loc.table]
         has == t \in tgt.tables
     IN /\ loc' = [loc EXCEPT !.hasTable = has,
                              !.hasConnectionsTable = IF loc.table = 1 THEN has ELSE @]
        /\ pc' = IF ~has THEN "id_createTable"
                 ELSE IF loc.table = 1 THEN "id_hasColumn" ELSE "id_next"
  /\ UNCHANGED <<tgt, hist>> /\ UNCHANGED IdUnchanged

\* await appDb.schema.createTable(name, ...): an error when the table exists
IdCreateTable ==
  /\ pc \in {"id_createTable", "id_createAgain"}
  /\ LET t == AppTables[loc.table]
     IN IF t \in tgt.tables
        THEN /\ pc' = "id_thrown"
             /\ hist' = [hist EXCEPT !.outcomes = Append(@, "thrown")]
             /\ UNCHANGED tgt
        ELSE /\ tgt' = [tgt EXCEPT !.tables = @ \cup {t},
                                   !.ssl = IF pc = "id_createTable" /\ t = "connections"
                                           THEN TRUE ELSE @]
             /\ hist' = [hist EXCEPT !.created = @ \cup {t}]
             /\ pc' = IF pc = "id_createTable" /\ loc.table = 1
                      THEN "id_second" ELSE "id_next"
  /\ UNCHANGED loc /\ UNCHANGED IdUnchanged

\* await appDb.schema.hasColumn('connections', 'ssl'); alterTable when missing
IdHasColumn ==
  /\ pc = "id_hasColumn"
  /\ pc' = IF tgt.ssl THEN "id_second" ELSE "id_alterTable"
  /\ UNCHANGED <<loc, tgt, hist>> /\ UNCHANGED IdUnchanged

IdAlterTable ==
  /\ pc = "id_alterTable"
  /\ tgt' = [tgt EXCEPT !.ssl = TRUE]
  /\ pc' = "id_second"
  /\ UNCHANGED <<loc, hist>> /\ UNCHANGED IdUnchanged

\* the statements between two awaited calls: after the first block on
\* connections, `if (!hasConnectionsTable)` a second time; then the next table
IdNext ==
  /\ pc \in {"id_second", "id_next"}
  /\ IF pc = "id_second" /\ ~loc.hasConnectionsTable
     THEN /\ pc' = "id_createAgain"
          /\ UNCHANGED <<loc, hist>>
     ELSE IF loc.table < Len(AppTables)
     THEN /\ pc' = "id_hasTable"
          /\ loc' = [loc EXCEPT !.table = @ + 1]
          /\ UNCHANGED hist
     ELSE /\ pc' = "id_returned"
          /\ hist' = [hist EXCEPT !.outcomes = Append(@, "returned")]
          /\ UNCHANGED loc
  /\ UNCHANGED tgt /\ UNCHANGED IdUnchanged

\* the server is started again: startServer calls initializeDatabase
IdStartAgain ==
  /\ pc \in {"id_returned", "id_thrown"}
  /\ hist.run < MaxRuns
  /\ pc' = "id_hasTable"
  /\ loc' = [hasConnectionsTable |-> FALSE, hasTable |-> FALSE, table |-> 1]
  /\ hist' = [hist EXCEPT !.run = @ + 1, !.created = {}]
  /\ UNCHANGED tgt /\ UNCHANGED IdUnchanged

NextDb == IdHasTable \/ IdCreateTable \/ IdHasColumn \/ IdAlterTable \/ IdNext
            \/ IdStartAgain
SpecDb == InitDb /\ [][NextDb]_vars

\* C25: on a database holding none of the application's tables,
\* initializeDatabase creates connections, migrations, migration_logs,
\* rule_presets and rule_items and returns without an error; called again on
\* that database it creates nothing and returns without an error.
C25_InitializeCreatesOnce ==
  (pc \in {"id_returned", "id_thrown"} /\ hist.initial = {})
    => /\ pc = "id_returned"
       /\ tgt.tables = Range(AppTables)
       /\ hist.run = 1 => hist.created = Range(AppTables)
       /\ hist.run > 1 => hist.created = {}


\* an overwrite task has failed: its exception is in the collection's catch
OverwriteFailed == pc = "catchTable" /\ rule = "overwrite"

\* C26: an overwrite task that ends failed (the table is missing in the
\* source, reading the source fails, ...) leaves the target table's rows
\* exactly as they were before the task.
C26_FailedOverwriteKeepsRows ==
  OverwriteFailed
    => /\ tgt.rows[collectionName] = hist.before.rows
       /\ tgt.old[collectionName] = hist.before.old


\* C27: a task for table t changes rows only in target table t: every
\* other table, a table migrated earlier in the job or one that references
\* t by a foreign key included, has the same rows after each step of the task.
C27_OnlyOwnTable ==
  [][\A u \in Tables :
       (tgt'.rows[u] # tgt.rows[u] \/ tgt'.old[u] # tgt.old[u])
         => (loc.idx \in 1..Len(job.collections) /\ u = collectionName)]_vars


\* ------------------------------------------- the request's two connections
\* A fifth specification: a request for POST /api/migrations/execute, sent by
\* the MigrationsView form or by any other HTTP client, up to the point where
\* executeMigration has opened its two handles.  env is the client and what
\* it submits, job the arguments of executeMigration, sourceDb and targetDb
\* the connection each handle is configured for.
NoId == ""
ConnIds == {"c1", "c2", "c3"}

InitRequest ==
  /\ pc = "idle"
  /\ env \in [client : {"form", "http"},
              sourceConnectionId : ConnIds \cup {NoId},
              targetConnectionId : ConnIds \cup {NoId},
              collections : {<<>>, <<"parent">>, <<"parent", "child">>}]
  /\ job = [sourceConnectionId |-> NoId, targetConnectionId |-> NoId,
            collections |-> <<>>, globalRule |-> "schema"]
  /\ migrations = NoMigration
  /\ connections = {"c1", "c2"}          \* the ids that have a row in connections
  /\ migration_logs = <<>>
  /\ sourceDb = "undefined"
  /\ targetDb = "undefined"
  /\ loc = [localError |-> NoErr, executing |-> FALSE]
  /\ tgt = [exists |-> FALSE, columns |-> <<>>]
  /\ faults = 0
  /\ hist = [issued |-> <<>>]

\* MigrationsView.handleExecute, up to api.executeMigration(...)
HandleExecute ==
  /\ pc = "idle" /\ env.client = "form"
  /\ IF env.sourceConnectionId = NoId \/ env.targetConnectionId = NoId
     THEN /\ loc' = [loc EXCEPT !.localError = "Please select source and target connections"]
          /\ pc' = "formError"
     ELSE IF Len(env.collections) = 0
     THEN /\ loc' = [loc EXCEPT
                       !.localError = "Please select at least one collection to migrate"]
          /\ pc' = "formError"
     ELSE IF env.sourceConnectionId = env.targetConnectionId
     THEN /\ loc' = [loc EXCEPT
                       !.localError = "Source and target connections must be different"]
          /\ pc' = "formError"
     ELSE /\ loc' = [loc EXCEPT !.executing = TRUE]
          /\ pc' = "post"
  /\ UNCHANGED <<migrations, connections, migration_logs, job, sourceDb, targetDb,
                 tgt, env, faults, hist>>

\* any other client sends its body as it is
HttpClient ==
  /\ pc = "idle" /\ env.client = "http"
  /\ pc' = "post"
  /\ UNCHANGED <<migrations, connections, migration_logs, job, sourceDb, targetDb,
                 loc, tgt, env, faults, hist>>

\* router.post('/execute'): the presence checks, the migrations record, and
\* the call of executeMigration
RouteExecute ==
  /\ pc = "post"
  /\ IF \/ env.sourceConnectionId = NoId \/ env.targetConnectionId = NoId
        \/ Len(env.collections) = 0
     THEN /\ pc' = "http400"
          /\ UNCHANGED <<migrations, job>>
     ELSE /\ migrations' = [NoMigration EXCEPT !.status = "running"]
          /\ job' = [sourceConnectionId |-> env.sourceConnectionId,
                     targetConnectionId |-> env.targetConnectionId,
                     collections |-> env.collections, globalRule |-> "schema"]
          /\ pc' = "loadConns"
  /\ UNCHANGED <<connections, migration_logs, sourceDb, targetDb, loc, tgt, env,
                 faults, hist>>

\* executeMigration: both connection rows are read, and a handle is made for each
OpenHandles ==
  /\ pc = "loadConns"
  /\ IF job.sourceConnectionId \notin connections \/ job.targetConnectionId \notin connections
     THEN /\ pc' = "jobFailed"
          /\ migrations' = [migrations EXCEPT !.status = "failed",
                                              !.error_message = NotFoundMsg]
          /\ UNCHANGED <<sourceDb, targetDb>>
     ELSE /\ pc' = "jobRunning"
          /\ sourceDb' = job.sourceConnectionId
          /\ targetDb' = job.targetConnectionId
          /\ UNCHANGED migrations
  /\ UNCHANGED <<connections, migration_logs, job, loc, tgt, env, faults, hist>>

NextRequest == HandleExecute \/ HttpClient \/ RouteExecute \/ OpenHandles
SpecRequest == InitRequest /\ [][NextRequest]_vars

\* C28: every job started through POST /api/migrations/execute has a
\* sourceConnectionId different from its targetConnectionId, and no job runs
\* with the same connection as source and as target.
C28_DistinctConnections ==
  /\ pc \in {"loadConns", "jobFailed", "jobRunning"}
       => job.sourceConnectionId # job.targetConnectionId
  /\ pc = "jobRunning" => sourceDb # targetDb


\* ------------------------------------------- log events of a schema job
\* A sixth specification: the log traffic of a job of schema tasks.  A call
\* of logMigration starts an insert into migration_logs on a connection of
\* the appDb pool; executeMigration awaits its own calls, migrateSchema calls
\* its log callback without awaiting the promise.  loc.inflight holds the
\* inserts started and not yet finished, migration_logs the rows appended.
LogCall(message, awaited) == [message |-> message, awaited |-> awaited]
\* the log calls of one schema task, in program order
LogCalls(path) ==
  <<LogCall("Starting migration", TRUE)>> \o
  (CASE path = "notInSource" ->
          <<LogCall("Table not found in source database", FALSE)>>
     [] path = "upToDate" ->
          <<LogCall("Table exists, checking for new columns", FALSE),
            LogCall("Table is up to date", FALSE)>>
     [] path = "addColumn" ->
          <<LogCall("Table exists, checking for new columns", FALSE),
            LogCall("Found new column(s) to add", FALSE),
            LogCall("Column added", FALSE),
            LogCall("Added columns", TRUE)>>
     [] path = "createTable" ->
          <<LogCall("Creating table", FALSE),
            LogCall("Table created", FALSE),
            LogCall("Table created successfully", TRUE)>>)

InitLog ==
  /\ pc = "task"
  /\ \E cs \in {<<"parent">>, <<"child">>, <<"parent", "child">>} :
       job = [collections |-> [i \in 1..Len(cs) |-> [name |-> cs[i], rule |-> "schema"]],
              globalRule |-> "schema"]
  /\ env \in [path : [Tables -> {"notInSource", "upToDate", "addColumn", "createTable"}]]
  /\ \A t \in Tables \ {job.collections[i].name : i \in 1..Len(job.collections)} :
       env.path[t] = "upToDate"
  /\ loc = [idx |-> 1, call |-> 1, inflight |-> {}, awaiting |-> 0]
  /\ migrations = [NoMigration EXCEPT !.status = "running"]
  /\ migration_logs = <<>>
  /\ hist = [issued |-> <<>>]
  /\ connections = {"src", "tgt"}
  /\ sourceDb = "open"
  /\ targetDb = "open"
  /\ tgt = [exists |-> FALSE, columns |-> <<>>]
  /\ faults = 0

LgUnchanged == <<connections, job, sourceDb, targetDb, tgt, env, faults>>
TaskCalls == LogCalls(env.path[job.collections[loc.idx].name])

\* the next log call of the current task: the insert is started; an awaited
\* call suspends executeMigration until its insert has finished
LgCall ==
  /\ pc = "task"
  /\ loc.idx <= Len(job.collections)
  /\ loc.call <= Len(TaskCalls)
  /\ LET c == TaskCalls[loc.call]
         ev == [collection |-> job.collections[loc.idx].name, message |-> c.message]
         n == Len(hist.issued) + 1
     IN /\ hist' = [hist EXCEPT !.issued = Append(@, ev)]
        /\ loc' = [loc EXCEPT !.inflight = @ \cup {n}, !.call = @ + 1,
                              !.awaiting = IF c.awaited THEN n ELSE 0]
        /\ pc' = IF c.awaited THEN "awaitLog" ELSE "task"
  /\ UNCHANGED <<migrations, migration_logs>> /\ UNCHANGED LgUnchanged

\* an insert started by logMigration finishes: its row is appended
LgAppend ==
  /\ \E n \in loc.inflight :
       /\ migration_logs' = Append(migration_logs, hist.issued[n])
       /\ loc' = [loc EXCEPT !.inflight = @ \ {n}]
  /\ UNCHANGED <<pc, migrations, hist>> /\ UNCHANGED LgUnchanged

\* the awaited logMigration call returns
LgResume ==
  /\ pc = "awaitLog"
  /\ loc.awaiting \notin loc.inflight
  /\ pc' = "task"
  /\ loc' = [loc EXCEPT !.awaiting = 0]
  /\ UNCHANGED <<migrations, migration_logs, hist>> /\ UNCHANGED LgUnchanged

\* results.push(...) and the next collection
LgNextTask ==
  /\ pc = "task"
  /\ loc.idx <= Len(job.collections)
  /\ loc.call > Len(TaskCalls)
  /\ loc' = [loc EXCEPT !.idx = @ + 1, !.call = 1]
  /\ UNCHANGED <<pc, migrations, migration_logs, hist>> /\ UNCHANGED LgUnchanged

\* await appDb("migrations").update({status: "completed", ...})
LgComplete ==
  /\ pc = "task"
  /\ loc.idx > Len(job.collections)
  /\ migrations' = [migrations EXCEPT !.status = "completed", !.hasResult = TRUE]
  /\ pc' = "done"
  /\ UNCHANGED <<migration_logs, loc, hist>> /\ UNCHANGED LgUnchanged

NextLog == LgCall \/ LgAppend \/ LgResume \/ LgNextTask \/ LgComplete
SpecLog == InitLog /\ [][NextLog]_vars

\* position of an appended row in the order of issue
IssueIndex(ev) == CHOOSE n \in 1..Len(hist.issued) : hist.issued[n] = ev

\* C29: when executeMigration writes the terminal status, every log event
\* issued during the job (those issued through the log callback given to
\* migrateSchema included) has been appended to migration_logs, and the
\* events of one table are appended in the order they were issued.
C29_LogsCompleteAndOrdered ==
  /\ migrations.status \in {"completed", "failed"}
       => /\ loc.inflight = {}
          /\ Len(migration_logs) = Len(hist.issued)
  /\ \A i, j \in 1..Len(migration_logs) :
       (i < j /\ migration_logs[i].collection = migration_logs[j].collection)
         => IssueIndex(migration_logs[i]) < IssueIndex(migration_logs[j])


\* ------------------------------------ two jobs overwriting the same table
\* A seventh specification: two requests accepted one after the other, whose
\* executeMigration calls run concurrently in the server process, each with
\* its own handles, both with the task {name: t, rule: overwrite} on the same
\* target.  Every awaited statement is one step of one job.  tgt.rows gives
\* for each key how many rows of the target table carry it; the source holds
\* the keys 1..env.srcN and is not changed.
Jobs == {1, 2}
PairKeys == 0..MaxRows            \* key 0 is never a key of the source
\* .select('*').limit(batchSize).offset(offset)
PairBatch(offset) ==
  SubSeq([i \in 1..env.srcN |-> i], offset + 1,
         IF offset + BatchSize < env.srcN THEN offset + BatchSize ELSE env.srcN)
PairJob == [pc |-> "ow_hasData", hasData |-> FALSE, offset |-> 0, data |-> <<>>,
            row |-> 1, totalMigrated |-> 0, rowsMigrated |-> Absent]

InitPair ==
  /\ env \in [srcN : 0..MaxRows]
  /\ \E old \in SUBSET (PairKeys \ {MaxRows}), pkey \in BOOLEAN :
       tgt = [rows |-> [k \in PairKeys |-> IF k \in old THEN 1 ELSE 0], pkey |-> pkey]
  /\ loc = [j \in Jobs |-> PairJob]
  /\ pc = "running"
  /\ job = [collections |-> <<[name |-> "parent", rule |-> "overwrite"]>>,
            globalRule |-> "overwrite"]
  /\ migrations = [NoMigration EXCEPT !.status = "running"]
  /\ migration_logs = <<>>
  /\ connections = {"src", "tgt"}
  /\ sourceDb = "open"
  /\ targetDb = "open"
  /\ faults = 0
  /\ hist = [issued |-> <<>>]

PrUnchanged == <<migrations, connections, migration_logs, job, sourceDb, targetDb,
                 env, faults, hist>>
PairGo(j, next) == loc' = [loc EXCEPT ![j] = next]
\* the rows of data are added to the target
PairInserted(rows, data) ==
  [k \in PairKeys |-> rows[k] + Cardinality({i \in 1..Len(data) : data[i] = k})]
\* a primary key of the target refuses a key that it already holds
PairConflict(data) == tgt.pkey /\ \E i \in 1..Len(data) : tgt.rows[data[i]] > 0

\* const hasData = await tableHasData(targetDb, collectionName)
PrHasData(j) ==
  /\ loc[j].pc = "ow_hasData"
  /\ LET hasData == \E k \in PairKeys : tgt.rows[k] > 0
     IN PairGo(j, [loc[j] EXCEPT !.hasData = hasData,
                                 !.pc = IF hasData THEN "ow_truncate" ELSE "md_fetch"])
  /\ UNCHANGED <<pc, tgt>> /\ UNCHANGED PrUnchanged

\* await targetDb.raw(`TRUNCATE TABLE "t" CASCADE`)
PrTruncate(j) ==
  /\ loc[j].pc = "ow_truncate"
  /\ tgt' = [tgt EXCEPT !.rows = [k \in PairKeys |-> 0]]
  /\ PairGo(j, [loc[j] EXCEPT !.pc = "md_fetch"])
  /\ UNCHANGED pc /\ UNCHANGED PrUnchanged

\* migrateData: const data = await sourceDb(tableName)...offset(offset)
PrFetch(j) ==
  /\ loc[j].pc = "md_fetch"
  /\ LET data == PairBatch(loc[j].offset)
     IN PairGo(j, [loc[j] EXCEPT !.data = data,
                                 !.pc = IF Len(data) = 0 THEN "ow_return" ELSE "md_insert"])
  /\ UNCHANGED <<pc, tgt>> /\ UNCHANGED PrUnchanged

\* offset += batchSize; if (data.length < batchSize) break
PairNext(j, total) ==
  [loc[j] EXCEPT !.totalMigrated = total, !.offset = @ + BatchSize, !.row = 1,
                 !.pc = IF LastBatch(loc[j].data) THEN "ow_return" ELSE "md_fetch"]

\* await targetDb(tableName).insert(preparedData): all rows, or an error
PrInsert(j) ==
  /\ loc[j].pc = "md_insert"
  /\ IF PairConflict(loc[j].data)
     THEN /\ PairGo(j, [loc[j] EXCEPT !.pc = "md_row", !.row = 1])
          /\ UNCHANGED tgt
     ELSE /\ tgt' = [tgt EXCEPT !.rows = PairInserted(@, loc[j].data)]
          /\ PairGo(j, PairNext(j, loc[j].totalMigrated + Len(loc[j].data)))
  /\ UNCHANGED pc /\ UNCHANGED PrUnchanged

\* the fallback: for (const row of preparedData) try { insert(row); totalMigrated++ }
PrInsertRow(j) ==
  /\ loc[j].pc = "md_row"
  /\ LET row == <<loc[j].data[loc[j].row]>>
         ok == ~PairConflict(row)
         total == loc[j].totalMigrated + (IF ok THEN 1 ELSE 0)
     IN /\ tgt' = IF ok THEN [tgt EXCEPT !.rows = PairInserted(@, row)] ELSE tgt
        /\ PairGo(j, IF loc[j].row < Len(loc[j].data)
                     THEN [loc[j] EXCEPT !.row = @ + 1, !.totalMigrated = total]
                     ELSE PairNext(j, total))
  /\ UNCHANGED pc /\ UNCHANGED PrUnchanged

\* rowsMigrated = await migrateData(...); results.push({..., status: "success"})
PrReturn(j) ==
  /\ loc[j].pc = "ow_return"
  /\ PairGo(j, [loc[j] EXCEPT !.rowsMigrated = loc[j].totalMigrated, !.pc = "done"])
  /\ UNCHANGED <<pc, tgt>> /\ UNCHANGED PrUnchanged

NextPair ==
  \E j \in Jobs :
    PrHasData(j) \/ PrTruncate(j) \/ PrFetch(j) \/ PrInsert(j) \/ PrInsertRow(j)
      \/ PrReturn(j)
SpecPair == InitPair /\ [][NextPair]_vars

BothDone == \A j \in Jobs : loc[j].pc = "done"

\* C30: two jobs run concurrently, both overwriting the same target table
\* from the same unchanged source: in every interleaving, once both have
\* finished, the target holds exactly the source's rows and both
\* TableResults have rowsMigrated equal to the source's row count.
C30_ConcurrentOverwrite ==
  BothDone
    => /\ \A k \in PairKeys : tgt.rows[k] = IF k \in 1..env.srcN THEN 1 ELSE 0
       /\ \A j \in Jobs : loc[j].rowsMigrated = env.srcN


====
